---------------------------- MODULE Spec2Model ----------------------------
(***************************************************************************)
(* Model of the budget pipeline of streamlit_app.py: money parsing         *)
(* (_to_decimal, _round2, series_to_cents), the leaf metrics               *)
(* (compute_financials), the roll-up (aggregate_to_campaign) and the       *)
(* campaign metrics (compute_campaign_metrics_from_cents).                 *)
(*                                                                         *)
(* A cell is a record [na, s]: na is TRUE for None / NaN, s is the text of *)
(* str(value) as a sequence of one-character strings.  A calendar date is  *)
(* a record [nat, day]: nat is TRUE for NaT, day is the day number.        *)
(* Money is kept in integer cents, as the code keeps it.                   *)
(***************************************************************************)
EXTENDS Integers, Sequences, FiniteSets, TLC

VARIABLES
    series,     \* the argument of series_to_cents (a sequence of cells)
    cents_out,  \* what series_to_cents returned for it
    today,      \* the `today` argument of the metric functions (a day number)
    raw,        \* the canonical table given to compute_financials
    leaf,       \* the table compute_financials returned
    agg,        \* the table aggregate_to_campaign returned
    camp,       \* the table compute_campaign_metrics_from_cents returned
    pc,         \* the stage the run is at
    group_path, \* the argument of split_group_path (a text)
    hier,       \* the Program / Industry / Channel it returned
    platform,   \* what map_platform returned for its Channel
    lines,      \* the lines of the file read_csv_with_header_detection reads
    header_idx, \* the header index it detected
    frame,      \* the table it returned
    disk,       \* the files matching "Copy of Budgets*.csv", as glob lists them
    cache,      \* the entry st.cache_data keeps for load_local_budget_csvs
    raw_combined, \* the table load_local_budget_csvs returned to this run
    read_files, \* the files as they were when the function body last ran
    served,     \* whether the last call ran the body ("fresh") or not ("cached")
    resync,     \* a re-sync was requested and no load has been served since
    answered,   \* the last load was the first one after a re-sync request
    edits,      \* how many times the files were changed
    fact_out,   \* the rows of build_fact_table before it groups them
    fact,       \* the table build_fact_table returned
    canon,      \* the table parse_local_data_to_canonical returned
    parse_errors, \* the parse_errors list it had collected when it returned
    error,      \* the message of st.error, "" when there is none
    page,       \* the page that was rendered, "" when there is none
    heap,       \* the tables that exist as objects, by reference
    arg,        \* the reference passed to the stage that is called
    ret,        \* the reference the stage returned, 0 before it returns
    stage,      \* the function that is called
    first       \* the tables of the run before this one, <<>> when there is none

pipeVars == <<series, cents_out, today, raw, leaf, agg, camp>>

hierVars == <<group_path, hier, platform>>

readVars == <<lines, header_idx, frame>>

loadVars == <<disk, cache, raw_combined, read_files, served, resync, answered, edits>>

appVars == <<fact_out, fact, canon, parse_errors, error, page>>

ingestVars == <<hierVars, readVars, loadVars, appVars>>

callVars == <<heap, arg, ret, stage>>

auxVars == <<callVars, first>>

vars == <<pipeVars, pc, ingestVars, auxVars>>

-----------------------------------------------------------------------------
(* Bounds of the model *)

MaxCellLen == 4     \* longest generated money cell, in characters
MaxDay == 4         \* generated dates and today range over 0..MaxDay
MaxRows == 2        \* most leaf rows in a generated multi-row table
MaxPathLen == 5     \* longest generated group path, in characters
MaxLines == 4       \* most lines in a generated file

(* Program constants *)

DecimalPrec == 28   \* precision of the decimal context the code runs under
MinDailyLinkedIn == 1000   \* MIN_DAILY_BY_CHANNEL["LinkedIn"] = 10.00, in hundredths

-----------------------------------------------------------------------------
(* Characters and small helpers *)

Digits == {"0", "1", "2", "3", "4", "5", "6", "7", "8", "9"}

Whitespace == {" ", "\t"}

DigitVal(c) ==
    CASE c = "0" -> 0 [] c = "1" -> 1 [] c = "2" -> 2 [] c = "3" -> 3
      [] c = "4" -> 4 [] c = "5" -> 5 [] c = "6" -> 6 [] c = "7" -> 7
      [] c = "8" -> 8 [] c = "9" -> 9

Max2(a, b) == IF a >= b THEN a ELSE b

Min2(a, b) == IF a <= b THEN a ELSE b

Abs(n) == IF n < 0 THEN -n ELSE n

HasChar(s, c) == \E i \in DOMAIN s : s[i] = c

CountChar(s, c) == Cardinality({i \in DOMAIN s : s[i] = c})

Front(s) == SubSeq(s, 1, Len(s) - 1)

RECURSIVE LStrip(_)
LStrip(s) ==
    IF s # <<>> /\ Head(s) \in Whitespace THEN LStrip(Tail(s)) ELSE s

RECURSIVE RStrip(_)
RStrip(s) ==
    IF s # <<>> /\ s[Len(s)] \in Whitespace THEN RStrip(Front(s)) ELSE s

\* str.strip()
Strip(s) == RStrip(LStrip(s))

Str(s) == [na |-> FALSE, s |-> s]

NA == [na |-> TRUE, s |-> <<>>]

-----------------------------------------------------------------------------
(* Decimal values: [none, neg, ip, fp], ip and fp the digits before and    *)
(* after the point.  None is the absent value.                             *)

NoDecimal == [none |-> TRUE, neg |-> FALSE, ip |-> <<>>, fp |-> <<>>]

\* Decimal(s) for s made of digits, "." and "-": the constructor is exact and
\* raises InvalidOperation (here: absent, as _to_decimal catches it) unless s
\* is an optional sign, digits with at most one point, and at least one digit.
DecimalOf(s) ==
    LET neg == s # <<>> /\ Head(s) = "-"
        body == IF neg THEN Tail(s) ELSE s
        valid == /\ ~HasChar(body, "-")
                 /\ CountChar(body, ".") <= 1
                 /\ \E i \in DOMAIN body : body[i] \in Digits
        dot == IF HasChar(body, ".")
               THEN CHOOSE i \in DOMAIN body : body[i] = "."
               ELSE Len(body) + 1
        ipc == SubSeq(body, 1, dot - 1)
        fpc == SubSeq(body, dot + 1, Len(body))
    IN  IF ~valid THEN NoDecimal
        ELSE [none |-> FALSE, neg |-> neg,
              ip |-> [i \in DOMAIN ipc |-> DigitVal(ipc[i])],
              fp |-> [i \in DOMAIN fpc |-> DigitVal(fpc[i])]]

\* _to_decimal(value)
to_decimal(cell) ==
    IF cell.na \/ Strip(cell.s) = <<>> THEN NoDecimal
    ELSE LET s1 == Strip(cell.s)
             s2 == SelectSeq(s1, LAMBDA c : c # " ")
             s3 == IF HasChar(s2, ",") /\ ~HasChar(s2, ".")
                   THEN [i \in DOMAIN s2 |-> IF s2[i] = "," THEN "." ELSE s2[i]]
                   ELSE s2
             s4 == SelectSeq(s3, LAMBDA c : c \in Digits \cup {".", "-"})
         IN  IF s4 \in {<<>>, <<"-">>, <<".">>, <<"-", ".">>}
             THEN NoDecimal
             ELSE DecimalOf(s4)

RECURSIVE StripZeros(_)
StripZeros(ds) ==
    IF ds # <<>> /\ Head(ds) = 0 THEN StripZeros(Tail(ds)) ELSE ds

RECURSIVE Incr(_)
Incr(ds) ==
    IF ds = <<>> THEN <<1>>
    ELSE IF ds[Len(ds)] = 9 THEN Incr(Front(ds)) \o <<0>>
    ELSE Front(ds) \o <<ds[Len(ds)] + 1>>

RECURSIVE DigitsToInt(_)
DigitsToInt(ds) ==
    IF ds = <<>> THEN 0 ELSE 10 * DigitsToInt(Front(ds)) + ds[Len(ds)]

FracDigit(d, k) == IF Len(d.fp) >= k THEN d.fp[k] ELSE 0

\* The third decimal decides ROUND_HALF_UP: a remainder of half a cent or
\* more moves the magnitude up, whatever the sign.
RoundsUp(d) == FracDigit(d, 3) >= 5

\* _round2(x): x.quantize(Decimal("0.01"), rounding=ROUND_HALF_UP).  The result
\* is the digit string of the amount in hundredths; quantize raises
\* InvalidOperation when that takes more digits than the context's precision.
round2(d) ==
    LET trunc == d.ip \o <<FracDigit(d, 1), FracDigit(d, 2)>>
        coeff == StripZeros(IF RoundsUp(d) THEN Incr(trunc) ELSE trunc)
    IN  IF Len(coeff) > DecimalPrec
        THEN [raised |-> TRUE, neg |-> d.neg, coeff |-> <<>>]
        ELSE [raised |-> FALSE, neg |-> d.neg, coeff |-> coeff]

NoCents == [tag |-> "none", v |-> 0]

RaisedCents == [tag |-> "raise", v |-> 0]

IntCents(n) == [tag |-> "int", v |-> n]

\* series_to_cents._one(v): absent, int(d2 * 100), or the exception of _round2
one_cents(cell) ==
    LET d == to_decimal(cell)
    IN  IF d.none THEN NoCents
        ELSE LET d2 == round2(d)
             IN  IF d2.raised THEN RaisedCents
                 ELSE IntCents((IF d2.neg THEN -1 ELSE 1) * DigitsToInt(d2.coeff))

\* series_to_cents(series): series.apply(_one); an exception in one cell ends
\* the whole call.
series_to_cents(s) ==
    LET r == [i \in DOMAIN s |-> one_cents(s[i])]
    IN  IF \E i \in DOMAIN r : r[i].tag = "raise" THEN <<RaisedCents>> ELSE r

SeriesRaises(s) == \E i \in DOMAIN s : one_cents(s[i]).tag = "raise"

\* series_to_cents(col).fillna(0).astype("int64") for one cell
cents_or_zero(cell) ==
    LET r == one_cents(cell) IN IF r.tag = "int" THEN r.v ELSE 0

-----------------------------------------------------------------------------
(* Dates, day counts and two-decimal strings *)

NaT == [nat |-> TRUE, day |-> 0]

Date(d) == [nat |-> FALSE, day |-> d]

\* A date cell is a date (or text that parses to one), text that does not
\* parse, or None.  parse_date_col: pd.to_datetime(errors="coerce").dt.date
parse_date_col(cell) ==
    IF cell.kind = "date" THEN Date(cell.day) ELSE NaT

\* safe_int(series).clip(lower=0): a cell that is no number counts as 0
safe_int_clip(cell) == Max2(0, IF cell.num THEN cell.n ELSE 0)

Clip0(n) == Max2(0, n)

\* (n / d).quantize(Decimal("1"), rounding=ROUND_HALF_UP) for d > 0: the exact
\* quotient rounded once, a tie moving away from zero.
QuantizeHalfUp(n, d) ==
    (IF n < 0 THEN -1 ELSE 1) * ((2 * Abs(n) + d) \div (2 * d))

\* _round2(Decimal(n) / Decimal(d)) for d > 0, as sign and hundredths
Round2Quot(n, d) ==
    [neg |-> n < 0, h |-> (200 * Abs(n) + d) \div (2 * d)]

NoneStr == [none |-> TRUE, neg |-> FALSE, whole |-> 0, frac |-> 0]

\* f"{x:.2f}" of a two-decimal Decimal: sign, digits before the point and the
\* two digits after it
Fmt2(x) ==
    [none |-> FALSE, neg |-> x.neg, whole |-> x.h \div 100, frac |-> x.h % 100]

\* Decimal(str(s)) of such a string, in hundredths
DecimalOfFmt2(s) == (IF s.neg THEN -1 ELSE 1) * (100 * s.whole + s.frac)

RECURSIVE Pow10(_)
Pow10(k) == IF k = 0 THEN 1 ELSE 10 * Pow10(k - 1)

\* A Decimal d is DecNum(d) / DecDen(d), with the sign d.neg
DecNum(d) == DigitsToInt(d.ip \o d.fp)

DecDen(d) == Pow10(Len(d.fp))

\* d <= 0 for a Decimal that is not None
NonPositive(d) == d.neg \/ DecNum(d) = 0

\* |n / d| rounded half up to an integer, for n >= 0 and d > 0
RoundQuotAbs(n, d) == (2 * n + d) \div (2 * d)

\* MIN_DAILY_BY_CHANNEL.get(channel): the floor in hundredths, or None
min_daily(channel) ==
    IF channel = "LinkedIn" THEN [none |-> FALSE, h |-> MinDailyLinkedIn]
    ELSE [none |-> TRUE, h |-> 0]

-----------------------------------------------------------------------------
(* compute_financials, one row at a time *)

fin_total_days(start, end) ==
    Clip0(IF start.nat \/ end.nat THEN 0 ELSE (end.day - start.day) + 1)

\* fin_elapsed_days without the cap of today at the end date
fin_elapsed_days_uncapped(start, end, t) ==
    LET effective_start == IF start.nat THEN t ELSE start.day
    IN  Clip0((t - effective_start) + 1)

fin_elapsed_days(start, end, t) ==
    LET effective_end == IF end.nat THEN t ELSE end.day
        effective_start == IF start.nat THEN t ELSE start.day
        elapsed_end == Min2(t, effective_end)
    IN  Clip0((elapsed_end - effective_start) + 1)

\* fin_remaining_budget_cents without clip(lower=0)
fin_remaining_unclipped(total, spent) == total - spent

fin_remaining_budget_cents(total, spent) == Clip0(total - spent)

\* fin_required_daily_str showing 0.00 where there is no day left
fin_required_daily_zero(remaining_active_days, remaining_budget_cents) ==
    IF remaining_active_days <= 0 THEN Fmt2([neg |-> FALSE, h |-> 0])
    ELSE Fmt2(Round2Quot(remaining_budget_cents, 100 * remaining_active_days))

fin_required_daily_str(remaining_active_days, remaining_budget_cents) ==
    IF remaining_active_days <= 0 THEN NoneStr
    ELSE Fmt2(Round2Quot(remaining_budget_cents, 100 * remaining_active_days))

\* fin_min_daily_violation comparing with <= instead of <
fin_min_daily_violation_at_floor(channel, required_daily) ==
    LET md == min_daily(channel)
    IN  IF md.none THEN FALSE
        ELSE IF required_daily.none THEN FALSE
        ELSE DecimalOfFmt2(required_daily) <= md.h

fin_min_daily_violation(channel, required_daily) ==
    LET md == min_daily(channel)
    IN  IF md.none THEN FALSE
        ELSE IF required_daily.none THEN FALSE
        ELSE DecimalOfFmt2(required_daily) < md.h

\* fin_expected_spend_to_date_cents rounding the daily budget before it is
\* multiplied by the elapsed days
fin_expected_spend_daily_rounded(active_days_total, elapsed_active_days, total) ==
    IF active_days_total <= 0 THEN 0
    ELSE QuantizeHalfUp(total, active_days_total) * elapsed_active_days

fin_expected_spend_to_date_cents(active_days_total, elapsed_active_days, total) ==
    IF active_days_total <= 0 THEN 0
    ELSE QuantizeHalfUp(total * elapsed_active_days, active_days_total)

fin_pacing_ratio(expected, actual) ==
    IF expected <= 0 THEN NoneStr
    ELSE Fmt2(Round2Quot(actual, expected))

\* _forecast_leads: projected_spend_dec / CPL_dec, two decimals.  The quotient
\* of total / 100 by num / den is total * den / (100 * num); the 28-digit
\* division cannot move a quotient of such small operands across a half.
fin_forecast_leads(cpl, total) ==
    IF cpl.none \/ NonPositive(cpl) THEN NoneStr
    ELSE Fmt2([neg |-> total < 0,
               h |-> RoundQuotAbs(Abs(total) * DecDen(cpl), DecNum(cpl))])

\* _forecast_impressions: (projected_spend_dec / CPM_dec) * 1000, two decimals
fin_forecast_impressions(cpm, total) ==
    IF cpm.none \/ NonPositive(cpm) THEN NoneStr
    ELSE Fmt2([neg |-> total < 0,
               h |-> RoundQuotAbs(Abs(total) * DecDen(cpm) * 1000, DecNum(cpm))])

\* _forecast_clicks: Decimal(imps_str) * CTR_dec, two decimals
fin_forecast_clicks(cpm, ctr, total) ==
    LET imps_str == fin_forecast_impressions(cpm, total)
    IN  IF imps_str.none \/ ctr.none THEN NoneStr
        ELSE Fmt2([neg |-> imps_str.neg # ctr.neg,
                   h |-> RoundQuotAbs(Abs(DecimalOfFmt2(imps_str)) * DecNum(ctr),
                                      DecDen(ctr))])

fin_row(r, t) ==
    LET start == parse_date_col(r.start_date)
        end == parse_date_col(r.end_date)
        ptotal == safe_int_clip(r.paused_days_total)
        ptodate == safe_int_clip(r.paused_days_to_date)
        total == cents_or_zero(r.budget)
        spent == cents_or_zero(r.spent_to_date)
        remaining == fin_remaining_budget_cents(total, spent)
        total_days == fin_total_days(start, end)
        active == Clip0(total_days - ptotal)
        elapsed == fin_elapsed_days(start, end, t)
        elapsed_active == Clip0(elapsed - ptodate)
        remaining_active == Clip0(active - elapsed_active)
        required == fin_required_daily_str(remaining_active, remaining)
        expected == fin_expected_spend_to_date_cents(active, elapsed_active, total)
    IN  [Program |-> r.Program, Industry |-> r.Industry, Channel |-> r.Channel,
         Campaign |-> r.Campaign, Phase |-> r.Phase,
         budget |-> r.budget, spent_to_date |-> r.spent_to_date,
         start_date |-> start, end_date |-> end,
         paused_days_total |-> ptotal, paused_days_to_date |-> ptodate,
         total_budget_cents |-> total, spent_to_date_cents |-> spent,
         remaining_budget_cents |-> remaining,
         total_days |-> total_days, active_days_total |-> active,
         elapsed_days |-> elapsed, elapsed_active_days |-> elapsed_active,
         remaining_active_days |-> remaining_active,
         required_daily |-> required,
         min_daily_violation |-> fin_min_daily_violation(r.Channel, required),
         CPM |-> r.CPM, CTR |-> r.CTR, CPL |-> r.CPL,
         forecast_leads |-> fin_forecast_leads(to_decimal(r.CPL), total),
         forecast_impressions |->
             fin_forecast_impressions(to_decimal(r.CPM), total),
         forecast_clicks |->
             fin_forecast_clicks(to_decimal(r.CPM), to_decimal(r.CTR), total),
         expected_spend_to_date_cents |-> expected,
         pacing_ratio |-> fin_pacing_ratio(expected, spent)]

\* compute_financials raises when a money cell makes series_to_cents raise
fin_raises(df) ==
    \/ SeriesRaises([i \in DOMAIN df |-> df[i].budget])
    \/ SeriesRaises([i \in DOMAIN df |-> df[i].spent_to_date])

compute_financials(df, t) == [i \in DOMAIN df |-> fin_row(df[i], t)]

-----------------------------------------------------------------------------
(* aggregate_to_campaign *)

\* The hierarchy names of the model, in the order Python sorts strings
SortedNames ==
    <<"", "AO", "AWS", "BV", "Brand", "General", "Google", "I", "Launch",
      "LinkedIn", "Meta", "Nordcloud", "P", "SI Partner", "Traffic", "X",
      "c1", "c2">>

NameRank(n) == CHOOSE i \in DOMAIN SortedNames : SortedNames[i] = n

KeyOf(r) == <<r.Program, r.Industry, r.Channel, r.Campaign>>

RECURSIVE KeyLess(_, _)
KeyLess(a, b) ==
    IF a = <<>> THEN FALSE
    ELSE IF Head(a) # Head(b) THEN NameRank(Head(a)) < NameRank(Head(b))
    ELSE KeyLess(Tail(a), Tail(b))

KeysOf(df) == {KeyOf(df[i]) : i \in DOMAIN df}

\* The distinct keys in sorted order, as groupby(...) lists its groups
RECURSIVE SortKeys(_)
SortKeys(ks) ==
    IF ks = {} THEN <<>>
    ELSE LET k == CHOOSE x \in ks : \A y \in ks \ {x} : KeyLess(x, y)
         IN  <<k>> \o SortKeys(ks \ {k})

GroupRows(df, k) == SelectSeq(df, LAMBDA r : KeyOf(r) = k)

RECURSIVE SumSeq(_)
SumSeq(s) == IF s = <<>> THEN 0 ELSE Head(s) + SumSeq(Tail(s))

RECURSIVE MaxSeq(_)
MaxSeq(s) == IF Len(s) = 1 THEN s[1] ELSE Max2(Head(s), MaxSeq(Tail(s)))

RECURSIVE MinSeq(_)
MinSeq(s) == IF Len(s) = 1 THEN s[1] ELSE Min2(Head(s), MinSeq(Tail(s)))

\* What min / max over a group's dates does with NaT among them is decided by
\* the pandas build: it skips NaT, yields NaT, or raises.
NaTModes == {"skip", "nat", "raise"}

HasNaT(df) == \E i \in DOMAIN df : df[i].start_date.nat \/ df[i].end_date.nat

agg_date(ds, mode, pick_max) ==
    LET valid == SelectSeq(ds, LAMBDA d : ~d.nat)
        days == [i \in DOMAIN valid |-> valid[i].day]
    IN  IF valid = <<>> \/ (Len(valid) < Len(ds) /\ mode = "nat") THEN NaT
        ELSE Date(IF pick_max THEN MaxSeq(days) ELSE MinSeq(days))

\* consistent_or_none keeping the first value where the cells differ
consistent_or_first(s) ==
    LET present == SelectSeq(s, LAMBDA v : ~v.na)
    IN  IF present = <<>> THEN NA ELSE present[1]

\* _consistent_or_none(s): the one value the cells that are not absent agree
\* on, None when they differ or all are absent
consistent_or_none(s) ==
    LET vals == {s[i] : i \in {j \in DOMAIN s : ~s[j].na}}
    IN  IF Cardinality(vals) = 1 THEN CHOOSE v \in vals : TRUE ELSE NA

\* agg_row taking the first row of the group where it should sum
agg_row_first(g, mode) ==
    [Program |-> g[1].Program, Industry |-> g[1].Industry,
     Channel |-> g[1].Channel, Campaign |-> g[1].Campaign,
     total_budget_cents |-> g[1].total_budget_cents,
     spent_to_date_cents |-> g[1].spent_to_date_cents,
     remaining_budget_cents |-> g[1].remaining_budget_cents,
     expected_spend_to_date_cents |-> g[1].expected_spend_to_date_cents,
     start_date |-> agg_date([i \in DOMAIN g |-> g[i].start_date], mode, FALSE),
     end_date |-> agg_date([i \in DOMAIN g |-> g[i].end_date], mode, TRUE),
     paused_days_total |-> MaxSeq([i \in DOMAIN g |-> g[i].paused_days_total]),
     paused_days_to_date |-> MaxSeq([i \in DOMAIN g |-> g[i].paused_days_to_date]),
     CPM |-> consistent_or_none([i \in DOMAIN g |-> g[i].CPM]),
     CTR |-> consistent_or_none([i \in DOMAIN g |-> g[i].CTR]),
     CPL |-> consistent_or_none([i \in DOMAIN g |-> g[i].CPL])]

agg_row(g, mode) ==
    [Program |-> g[1].Program, Industry |-> g[1].Industry,
     Channel |-> g[1].Channel, Campaign |-> g[1].Campaign,
     total_budget_cents |-> SumSeq([i \in DOMAIN g |-> g[i].total_budget_cents]),
     spent_to_date_cents |-> SumSeq([i \in DOMAIN g |-> g[i].spent_to_date_cents]),
     remaining_budget_cents |->
         SumSeq([i \in DOMAIN g |-> g[i].remaining_budget_cents]),
     expected_spend_to_date_cents |->
         SumSeq([i \in DOMAIN g |-> g[i].expected_spend_to_date_cents]),
     start_date |-> agg_date([i \in DOMAIN g |-> g[i].start_date], mode, FALSE),
     end_date |-> agg_date([i \in DOMAIN g |-> g[i].end_date], mode, TRUE),
     paused_days_total |-> MaxSeq([i \in DOMAIN g |-> g[i].paused_days_total]),
     paused_days_to_date |-> MaxSeq([i \in DOMAIN g |-> g[i].paused_days_to_date]),
     CPM |-> consistent_or_none([i \in DOMAIN g |-> g[i].CPM]),
     CTR |-> consistent_or_none([i \in DOMAIN g |-> g[i].CTR]),
     CPL |-> consistent_or_none([i \in DOMAIN g |-> g[i].CPL])]

aggregate_to_campaign(df_leaf, mode) ==
    LET keys == SortKeys(KeysOf(df_leaf))
    IN  [j \in DOMAIN keys |-> agg_row(GroupRows(df_leaf, keys[j]), mode)]

-----------------------------------------------------------------------------
(* compute_campaign_metrics_from_cents, one row at a time *)

camp_total_days(start, end) ==
    Clip0(IF start.nat \/ end.nat THEN 0 ELSE (end.day - start.day) + 1)

\* camp_elapsed_days without the cap of today at the end date
camp_elapsed_days_uncapped(start, end, t) ==
    LET effective_start == IF start.nat THEN t ELSE start.day
    IN  Clip0((t - effective_start) + 1)

camp_elapsed_days(start, end, t) ==
    LET effective_end == IF end.nat THEN t ELSE end.day
        effective_start == IF start.nat THEN t ELSE start.day
        elapsed_end == Min2(t, effective_end)
    IN  Clip0((elapsed_end - effective_start) + 1)

\* camp_remaining_budget_cents without clip(lower=0)
camp_remaining_unclipped(total, spent) == total - spent

camp_remaining_budget_cents(total, spent) == Clip0(total - spent)

camp_expected_spend_to_date_cents(active_days_total, elapsed_active_days, total) ==
    IF active_days_total <= 0 THEN 0
    ELSE QuantizeHalfUp(total * elapsed_active_days, active_days_total)

camp_required_daily_str(remaining_active_days, remaining_budget_cents) ==
    IF remaining_active_days <= 0 THEN NoneStr
    ELSE Fmt2(Round2Quot(remaining_budget_cents, 100 * remaining_active_days))

camp_min_daily_violation(channel, required_daily) ==
    LET md == min_daily(channel)
    IN  IF md.none THEN FALSE
        ELSE IF required_daily.none THEN FALSE
        ELSE DecimalOfFmt2(required_daily) < md.h

camp_pacing_ratio(expected, actual) ==
    IF expected <= 0 THEN NoneStr
    ELSE Fmt2(Round2Quot(actual, expected))

camp_forecast_leads(cpl, total) ==
    IF cpl.none \/ NonPositive(cpl) THEN NoneStr
    ELSE Fmt2([neg |-> total < 0,
               h |-> RoundQuotAbs(Abs(total) * DecDen(cpl), DecNum(cpl))])

camp_forecast_impressions(cpm, total) ==
    IF cpm.none \/ NonPositive(cpm) THEN NoneStr
    ELSE Fmt2([neg |-> total < 0,
               h |-> RoundQuotAbs(Abs(total) * DecDen(cpm) * 1000, DecNum(cpm))])

camp_forecast_clicks(cpm, ctr, total) ==
    LET imps_str == camp_forecast_impressions(cpm, total)
    IN  IF ctr.none \/ imps_str.none THEN NoneStr
        ELSE Fmt2([neg |-> imps_str.neg # ctr.neg,
                   h |-> RoundQuotAbs(Abs(DecimalOfFmt2(imps_str)) * DecNum(ctr),
                                      DecDen(ctr))])

camp_row(r, t) ==
    LET total == r.total_budget_cents
        spent == r.spent_to_date_cents
        remaining == camp_remaining_budget_cents(total, spent)
        ptotal == Clip0(r.paused_days_total)
        ptodate == Clip0(r.paused_days_to_date)
        total_days == camp_total_days(r.start_date, r.end_date)
        active == Clip0(total_days - ptotal)
        elapsed == camp_elapsed_days(r.start_date, r.end_date, t)
        elapsed_active == Clip0(elapsed - ptodate)
        remaining_active == Clip0(active - elapsed_active)
        expected == camp_expected_spend_to_date_cents(active, elapsed_active, total)
        required == camp_required_daily_str(remaining_active, remaining)
    IN  [Program |-> r.Program, Industry |-> r.Industry, Channel |-> r.Channel,
         Campaign |-> r.Campaign,
         start_date |-> r.start_date, end_date |-> r.end_date,
         paused_days_total |-> ptotal, paused_days_to_date |-> ptodate,
         total_budget_cents |-> total, spent_to_date_cents |-> spent,
         remaining_budget_cents |-> remaining,
         total_days |-> total_days, active_days_total |-> active,
         elapsed_days |-> elapsed, elapsed_active_days |-> elapsed_active,
         remaining_active_days |-> remaining_active,
         required_daily |-> required,
         min_daily_violation |-> camp_min_daily_violation(r.Channel, required),
         CPM |-> r.CPM, CTR |-> r.CTR, CPL |-> r.CPL,
         forecast_leads |-> camp_forecast_leads(to_decimal(r.CPL), total),
         forecast_impressions |->
             camp_forecast_impressions(to_decimal(r.CPM), total),
         forecast_clicks |->
             camp_forecast_clicks(to_decimal(r.CPM), to_decimal(r.CTR), total),
         expected_spend_to_date_cents |-> expected,
         pacing_ratio |-> camp_pacing_ratio(expected, spent)]

compute_campaign_metrics_from_cents(df_campaign, t) ==
    [i \in DOMAIN df_campaign |-> camp_row(df_campaign[i], t)]

-----------------------------------------------------------------------------
(* Inputs *)

Chars(str) ==
    CASE str = "" -> <<>>
      [] str = "-" -> <<"-">>
      [] str = "abc" -> <<"a", "b", "c">>
      [] str = "0" -> <<"0">>
      [] str = "5" -> <<"5">>
      [] str = "20" -> <<"2", "0">>
      [] str = "100" -> <<"1", "0", "0">>
      [] str = "200" -> <<"2", "0", "0">>
      [] str = "1000" -> <<"1", "0", "0", "0">>
      [] str = "-5" -> <<"-", "5">>
      [] str = "-3" -> <<"-", "3">>
      [] str = "2" -> <<"2">>
      [] str = "4" -> <<"4">>
      [] str = "-2" -> <<"-", "2">>
      [] str = "-4" -> <<"-", "4">>
      [] str = "0.3" -> <<"0", ".", "3">>
      [] str = "0.02" -> <<"0", ".", "0", "2">>
      [] str = "-0.5" -> <<"-", "0", ".", "5">>
      [] str = "0.5" -> <<"0", ".", "5">>
      [] str = "0.05" -> <<"0", ".", "0", "5">>
      [] str = "-0.05" -> <<"-", "0", ".", "0", "5">>
      [] str = "0.125" -> <<"0", ".", "1", "2", "5">>
      [] str = "50.5" -> <<"5", "0", ".", "5">>
      [] str = "999.49" -> <<"9", "9", "9", ".", "4", "9">>
      [] str = "999.5" -> <<"9", "9", "9", ".", "5">>
      [] str = "1234.56" -> <<"1", "2", "3", "4", ".", "5", "6">>
      [] str = "1,234.56" -> <<"1", ",", "2", "3", "4", ".", "5", "6">>
      [] str = "1 234.56" -> <<"1", " ", "2", "3", "4", ".", "5", "6">>
      [] str = "1 234,56" -> <<"1", " ", "2", "3", "4", ",", "5", "6">>

Cell(str) == Str(Chars(str))

\* A cell of n nines
Nines(n) == Str([i \in 1..n |-> "9"])

\* One more digit than the decimal context holds once the two decimals are added
TooLong == Nines(DecimalPrec - 1)

MoneyAlphabet == {"1", "5", "9", ".", ",", "-", " ", "a"}

GeneratedCells ==
    {Str(s) : s \in UNION {[1..n -> MoneyAlphabet] : n \in 0..MaxCellLen}}

SampleCells ==
    {NA, TooLong} \cup
    {Cell(x) : x \in {"", "-", "abc", "0.125", "1234.56", "1,234.56",
                      "1 234.56", "1 234,56", "-0.05", "999.5"}}

MoneyCells == GeneratedCells \cup SampleCells

DateCell(d) == [kind |-> "date", day |-> d]

TextDate == [kind |-> "text", day |-> 0]

NoDate == [kind |-> "none", day |-> 0]

Num(n) == [num |-> TRUE, n |-> n]

NotNum == [num |-> FALSE, n |-> 0]

RawRow(campaign, channel, start, end, budget, spent, ptotal, ptodate) ==
    [Program |-> "P", Industry |-> "I", Channel |-> channel,
     Campaign |-> campaign, Phase |-> "",
     start_date |-> start, end_date |-> end,
     budget |-> budget, spent_to_date |-> spent,
     paused_days_total |-> ptotal, paused_days_to_date |-> ptodate,
     CPM |-> NA, CTR |-> NA, CPL |-> NA]

\* The same row with cells in its CPM, CTR and CPL columns
WithPerf(r, cpm, ctr, cpl) ==
    [r EXCEPT !.CPM = cpm, !.CTR = ctr, !.CPL = cpl]

\* Single rows with every start, end and today up to MaxDay and every pause
DayDateCells == {TextDate} \cup {DateCell(d) : d \in 0..MaxDay}

PausedCells == {NotNum, Num(-1), Num(0), Num(1), Num(2)}

DayScenarios ==
    {[today |-> t,
      raw |-> <<RawRow("c1", "LinkedIn", s, e, Cell(b), Cell(sp), pt, pd)>>] :
        t \in 0..MaxDay, s \in DayDateCells, e \in DayDateCells,
        b \in {"100", "0.05", "-0.05"}, sp \in {"0", "0.5"},
        pt \in PausedCells, pd \in PausedCells}

\* Single rows with every kind of money cell, over three windows: a 20-day
\* window seen on its day 10, a 100-day window not yet started, and a window
\* that ended
Windows ==
    {[today |-> 10, start |-> DateCell(1), end |-> DateCell(20)],
     [today |-> 0, start |-> DateCell(1), end |-> DateCell(100)],
     [today |-> 9, start |-> DateCell(1), end |-> DateCell(4)],
     [today |-> 3, start |-> NoDate, end |-> NoDate]}

BudgetCells ==
    {NA, TooLong} \cup
    {Cell(x) : x \in {"", "abc", "-5", "5", "20", "100", "1000", "999.49",
                      "999.5", "0.125", "1,234.56"}}

SpentCells ==
    {NA, TooLong} \cup {Cell(x) : x \in {"-", "0", "-3", "200", "50.5", "1234.56"}}

MoneyScenarios ==
    {[today |-> w.today,
      raw |-> <<RawRow("c1", ch, w.start, w.end, b, sp, Num(0), Num(0))>>] :
        w \in Windows, ch \in {"LinkedIn", "Google", ""},
        b \in BudgetCells, sp \in SpentCells}

\* Tables of up to MaxRows phase rows spread over two campaigns
PhaseRows ==
    {RawRow(c, "LinkedIn", DateCell(w[1]), DateCell(w[2]), Cell(b), Cell(sp),
            Num(p), Num(0)) :
        c \in {"c1", "c2"}, w \in {<<0, 1>>, <<1, 3>>},
        b \in {"100", "0.05"}, sp \in {"0", "200"}, p \in {0, 1}}

PhaseTables == UNION {[1..n -> PhaseRows] : n \in 2..MaxRows}

TableScenarios ==
    {[today |-> t, raw |-> tb] : t \in {0, 2}, tb \in PhaseTables}

\* Single rows with cells in CPM, CTR and CPL
PerfBudgetCells == {NA} \cup {Cell(x) : x \in {"0", "5", "20", "-5"}}

CPMCells == {NA} \cup {Cell(x) : x \in {"abc", "0", "-2", "2", "0.5"}}

CTRCells == {NA} \cup {Cell(x) : x \in {"0", "-0.5", "0.5", "0.02"}}

CPLCells == {NA} \cup {Cell(x) : x \in {"0", "-4", "4", "0.3"}}

ForecastScenarios ==
    {[today |-> 10,
      raw |-> <<WithPerf(RawRow("c1", "LinkedIn", DateCell(1), DateCell(20),
                                b, Cell("0"), Num(0), Num(0)),
                         cpm, ctr, cpl)>>] :
        b \in PerfBudgetCells, cpm \in CPMCells, ctr \in CTRCells,
        cpl \in CPLCells}

\* Tables of phase rows of two campaigns whose CPM, CTR and CPL cells agree,
\* differ or are absent
PerfRows ==
    {WithPerf(RawRow(c, "LinkedIn", DateCell(1), DateCell(20), Cell("20"),
                     Cell("0"), Num(0), Num(0)),
              cpm, ctr, cpl) :
        c \in {"c1", "c2"}, cpm \in {NA, Cell("2"), Cell("0.5")},
        ctr \in {NA, Cell("0.5")}, cpl \in {NA, Cell("4")}}

PerfTables == UNION {[1..n -> PerfRows] : n \in 2..MaxRows}

PerfScenarios == {[today |-> 10, raw |-> tb] : tb \in PerfTables}

-----------------------------------------------------------------------------
(* The parts of the state a run of one stage leaves at rest *)

NoHier == [Program |-> <<>>, Industry |-> <<>>, Channel |-> <<>>]

HierIdle ==
    /\ group_path = <<>>
    /\ hier = NoHier
    /\ platform = ""

NoFrame == [raised |-> FALSE, cols |-> <<>>, rows |-> <<>>]

ReadIdle ==
    /\ lines = <<>>
    /\ header_idx = 0
    /\ frame = NoFrame

NoCache == [valid |-> FALSE, value |-> NoFrame]

LoadIdle ==
    /\ disk = <<>>
    /\ cache = NoCache
    /\ raw_combined = NoFrame
    /\ read_files = <<>>
    /\ served = "none"
    /\ resync = FALSE
    /\ answered = FALSE
    /\ edits = 0

AppIdle ==
    /\ fact_out = <<>>
    /\ fact = <<>>
    /\ canon = NoFrame
    /\ parse_errors = <<>>
    /\ error = ""
    /\ page = ""

CallIdle ==
    /\ heap = <<>>
    /\ arg = 0
    /\ ret = 0
    /\ stage = ""

AuxIdle == CallIdle /\ first = <<>>

IngestIdle == HierIdle /\ ReadIdle /\ LoadIdle /\ AppIdle

PipeIdle ==
    /\ series = <<>>
    /\ cents_out = <<>>
    /\ today = 0
    /\ raw = <<>>
    /\ leaf = <<>>
    /\ agg = <<>>
    /\ camp = <<>>

-----------------------------------------------------------------------------
(* The money parser on its own *)

InitMoney ==
    /\ AuxIdle
    /\ series \in {<<c>> : c \in MoneyCells}
    /\ cents_out = <<>>
    /\ today = 0
    /\ raw = <<>>
    /\ leaf = <<>>
    /\ agg = <<>>
    /\ camp = <<>>
    /\ pc = "cell"
    /\ IngestIdle

SeriesToCents ==
    /\ pc = "cell"
    /\ cents_out' = series_to_cents(series)
    /\ pc' = IF SeriesRaises(series) THEN "raised" ELSE "cents"
    /\ UNCHANGED <<series, today, raw, leaf, agg, camp>>
    /\ UNCHANGED <<ingestVars, auxVars>>

NextMoney == SeriesToCents

SpecMoney == InitMoney /\ [][NextMoney]_vars

-----------------------------------------------------------------------------
(* The pipeline: compute_financials, aggregate_to_campaign,                *)
(* compute_campaign_metrics_from_cents                                     *)

Init ==
    /\ AuxIdle
    /\ series = <<>>
    /\ cents_out = <<>>
    /\ \/ \E sc \in DayScenarios : today = sc.today /\ raw = sc.raw
       \/ \E sc \in MoneyScenarios : today = sc.today /\ raw = sc.raw
       \/ \E sc \in TableScenarios : today = sc.today /\ raw = sc.raw
       \/ \E sc \in ForecastScenarios : today = sc.today /\ raw = sc.raw
       \/ \E sc \in PerfScenarios : today = sc.today /\ raw = sc.raw
    /\ leaf = <<>>
    /\ agg = <<>>
    /\ camp = <<>>
    /\ pc = "raw"
    /\ IngestIdle

ComputeFinancials ==
    /\ pc = "raw"
    /\ IF fin_raises(raw)
       THEN pc' = "raised" /\ leaf' = leaf
       ELSE pc' = "leaf" /\ leaf' = compute_financials(raw, today)
    /\ UNCHANGED <<series, cents_out, today, raw, agg, camp>>
    /\ UNCHANGED <<ingestVars, auxVars>>

AggregateToCampaign ==
    /\ pc = "leaf"
    /\ \E mode \in NaTModes :
          IF HasNaT(leaf) /\ mode = "raise"
          THEN pc' = "raised" /\ agg' = agg
          ELSE pc' = "agg" /\ agg' = aggregate_to_campaign(leaf, mode)
    /\ UNCHANGED <<series, cents_out, today, raw, leaf, camp>>
    /\ UNCHANGED <<ingestVars, auxVars>>

ComputeCampaignMetrics ==
    /\ pc = "agg"
    /\ camp' = compute_campaign_metrics_from_cents(agg, today)
    /\ pc' = "camp"
    /\ UNCHANGED <<series, cents_out, today, raw, leaf, agg>>
    /\ UNCHANGED <<ingestVars, auxVars>>

Next == ComputeFinancials \/ AggregateToCampaign \/ ComputeCampaignMetrics

Spec == Init /\ [][Next]_vars

-----------------------------------------------------------------------------
(* Vocabulary of the properties *)

RECURSIVE SumOver(_, _)
\* The sum of f[i] over the indices i in S
SumOver(f, S) ==
    IF S = {} THEN 0
    ELSE LET i == CHOOSE x \in S : TRUE IN f[i] + SumOver(f, S \ {i})

MoneyFields ==
    {"total_budget_cents", "spent_to_date_cents", "remaining_budget_cents",
     "expected_spend_to_date_cents"}

LeafField(fld) == [i \in DOMAIN leaf |-> leaf[i][fld]]

SameKey(a, b) ==
    /\ a.Program = b.Program /\ a.Industry = b.Industry
    /\ a.Channel = b.Channel /\ a.Campaign = b.Campaign

\* The leaf rows an aggregate row stands for
Children(a) == {i \in DOMAIN leaf : SameKey(leaf[i], a)}

\* e is n / d (d > 0) rounded to an integer, a tie going away from zero
IsHalfUp(e, n, d) ==
    IF n >= 0
    THEN 2 * e * d - d <= 2 * n /\ 2 * n < 2 * e * d + d
    ELSE 2 * e * d - d < 2 * n /\ 2 * n <= 2 * e * d + d

\* The amount a two-decimal string shows, in hundredths
Shown(s) == (IF s.neg THEN -1 ELSE 1) * (100 * s.whole + s.frac)

-----------------------------------------------------------------------------
(* C1 - aggregate_to_campaign: one row per key, exact sums *)

\* C1: once aggregate_to_campaign has returned, its table has exactly one row
\* for each distinct (Program, Industry, Channel, Campaign) of the leaf rows,
\* each of the four money fields of that row is the integer sum of the field
\* over the leaf rows with that key, and so the grand total of each field is
\* the same over the aggregate rows as over the leaf rows.
C1_AggregateExactSums ==
    pc \in {"agg", "camp"} =>
        /\ \A i \in DOMAIN leaf :
              Cardinality({j \in DOMAIN agg : SameKey(agg[j], leaf[i])}) = 1
        /\ \A j \in DOMAIN agg : Children(agg[j]) # {}
        /\ \A j \in DOMAIN agg : \A fld \in MoneyFields :
              agg[j][fld] = SumOver(LeafField(fld), Children(agg[j]))
        /\ \A fld \in MoneyFields :
              SumOver([j \in DOMAIN agg |-> agg[j][fld]], DOMAIN agg)
                  = SumOver(LeafField(fld), DOMAIN leaf)

\* Two phases of one campaign, both with money, rolled up into one row
C1_Witness ==
    /\ pc = "agg"
    /\ Len(leaf) = 2 /\ Len(agg) = 1
    /\ leaf[1].total_budget_cents > 0 /\ leaf[2].total_budget_cents > 0
    /\ leaf[1].spent_to_date_cents > 0 /\ leaf[2].remaining_budget_cents > 0
    /\ leaf[1].expected_spend_to_date_cents > 0
    /\ agg[1].total_budget_cents
           = leaf[1].total_budget_cents + leaf[2].total_budget_cents

-----------------------------------------------------------------------------
(* C2 - the final campaign table against the leaf sums *)

\* C2 as stated: in the final campaign table every one of the four money
\* fields of an aggregate row is the integer sum of that field over the
\* aggregate's leaf rows.
C2_FinalAllMoneyFieldsAreSums ==
    pc = "camp" =>
        \A j \in DOMAIN camp : \A fld \in MoneyFields :
            camp[j][fld] = SumOver(LeafField(fld), Children(camp[j]))

\* C2 amended: in the final campaign table total_budget_cents and
\* spent_to_date_cents of an aggregate row are the integer sums over its leaf
\* rows; remaining_budget_cents is recomputed as max(0, sum of budgets - sum
\* of spend), which is at most the sum of the leaves' remaining budgets and
\* equals it when no leaf of the aggregate is overspent.
C2_FinalBudgetAndSpendAreSums ==
    pc = "camp" =>
        \A j \in DOMAIN camp :
            LET kids == Children(camp[j])
                budget == SumOver(LeafField("total_budget_cents"), kids)
                spend == SumOver(LeafField("spent_to_date_cents"), kids)
                rest == SumOver(LeafField("remaining_budget_cents"), kids)
            IN  /\ kids # {}
                /\ camp[j].total_budget_cents = budget
                /\ camp[j].spent_to_date_cents = spend
                /\ camp[j].remaining_budget_cents
                       = (IF budget > spend THEN budget - spend ELSE 0)
                /\ camp[j].remaining_budget_cents <= rest
                /\ (\A i \in kids :
                        leaf[i].spent_to_date_cents <= leaf[i].total_budget_cents)
                       => camp[j].remaining_budget_cents = rest

\* A campaign of two phases, one of them overspent: the final row keeps the
\* exact budget and spend and shows less remaining budget than its phases do
C2_Witness ==
    /\ pc = "camp"
    /\ Len(leaf) = 2 /\ Len(camp) = 1
    /\ leaf[1].spent_to_date_cents > leaf[1].total_budget_cents
    /\ leaf[2].remaining_budget_cents > 0
    /\ camp[1].total_budget_cents
           = leaf[1].total_budget_cents + leaf[2].total_budget_cents
    /\ camp[1].remaining_budget_cents
           < leaf[1].remaining_budget_cents + leaf[2].remaining_budget_cents

-----------------------------------------------------------------------------
(* C3 - money parsing *)

ParsedAs(str, n) ==
    series = <<Cell(str)>> => cents_out = <<IntCents(n)>>

ParsedAbsent(cell) ==
    series = <<cell>> => cents_out = <<NoCents>>

\* The examples of C3: the three spellings of 1234.56 give 123456 cents, the
\* empty string, "-", "abc" and a missing value give absent, and 0.125 rounds
\* up to 13 cents.
MoneyExamples ==
    pc # "cell" =>
        /\ ParsedAs("1,234.56", 123456)
        /\ ParsedAs("1234.56", 123456)
        /\ ParsedAs("1 234.56", 123456)
        /\ ParsedAs("0.125", 13)
        /\ ParsedAbsent(Cell(""))
        /\ ParsedAbsent(Cell("-"))
        /\ ParsedAbsent(Cell("abc"))
        /\ ParsedAbsent(NA)

\* What is left of a cell's text after the steps C3 lists: whitespace removed,
\* the comma turned into the point when there is a comma and no period, and
\* every character but digits, period and minus dropped
Residue(s) ==
    LET a == SelectSeq(s, LAMBDA c : c \notin Whitespace)
        commaOnly == (\E i \in DOMAIN a : a[i] = ",") /\ ~(\E i \in DOMAIN a : a[i] = ".")
        b == [i \in DOMAIN a |-> IF commaOnly /\ a[i] = "," THEN "." ELSE a[i]]
    IN  SelectSeq(b, LAMBDA c : c \in Digits \cup {".", "-"})

\* A residue that reads as a decimal number: an optional leading minus, then
\* digits with at most one period and at least one digit
ReadsAsDecimal(x) ==
    /\ \A i \in DOMAIN x : x[i] = "-" => i = 1
    /\ Cardinality({i \in DOMAIN x : x[i] = "."}) <= 1
    /\ \E i \in DOMAIN x : x[i] \in Digits


\* The digits of a residue read as one integer, and how many of them follow
\* the period
DigitsValue(x) ==
    LET ds == SelectSeq(x, LAMBDA c : c \in Digits)
    IN  DigitsToInt([i \in DOMAIN ds |-> DigitVal(ds[i])])

FractionLen(x) ==
    IF \E i \in DOMAIN x : x[i] = "."
    THEN Len(x) - (CHOOSE i \in DOMAIN x : x[i] = ".")
    ELSE 0

\* The steps of C3 on every cell that does not make the parser raise: absent
\* for a missing value, a rejected residue or one that is no decimal number,
\* and otherwise the value times 100 rounded half-up, with the sign kept.
MoneyFollowsSteps ==
    pc = "cents" =>
        LET cell == series[1]
            res == cents_out[1]
            x == Residue(cell.s)
        IN  IF \/ cell.na
               \/ x \in {<<>>, <<"-">>, <<".">>, <<"-", ".">>}
               \/ ~ReadsAsDecimal(x)
            THEN res = NoCents
            ELSE /\ res.tag = "int"
                 /\ (x[1] = "-" => res.v <= 0)
                 /\ (x[1] # "-" => res.v >= 0)
                 /\ IsHalfUp(res.v,
                             (IF x[1] = "-" THEN -100 ELSE 100) * DigitsValue(x),
                             Pow10(FractionLen(x)))

\* C3: series_to_cents never raises: for every cell it returns absent or the
\* integer number of cents the listed steps give, and the examples above come
\* out as stated.
C3_MoneyParsingTotalAndExact ==
    pc # "cell" =>
        /\ pc # "raised"
        /\ \A i \in DOMAIN cents_out : cents_out[i].tag \in {"none", "int"}
        /\ MoneyFollowsSteps
        /\ MoneyExamples

-----------------------------------------------------------------------------
(* C4 - cents are non-negative *)

\* C4: after compute_financials, total_budget_cents and spent_to_date_cents
\* are non-negative in every row, whatever the raw cells hold.
C4_CentsNonNegative ==
    \A i \in DOMAIN leaf :
        leaf[i].total_budget_cents >= 0 /\ leaf[i].spent_to_date_cents >= 0

-----------------------------------------------------------------------------
(* C5 - remaining budget is clamped, spend is not *)

\* C5: in every row of compute_financials and of
\* compute_campaign_metrics_from_cents remaining_budget_cents is
\* max(0, total_budget_cents - spent_to_date_cents); spent_to_date_cents is the
\* parsed spend itself (in a campaign row: the summed spend), never lowered to
\* the budget, so an overspent row has remaining_budget_cents = 0.
C5_RemainingClampedSpendNot ==
    /\ \A i \in DOMAIN leaf :
          LET r == leaf[i]
              spend == one_cents(raw[i].spent_to_date)
          IN  /\ r.remaining_budget_cents
                     = (IF r.total_budget_cents > r.spent_to_date_cents
                        THEN r.total_budget_cents - r.spent_to_date_cents ELSE 0)
              /\ r.spent_to_date_cents = (IF spend.tag = "int" THEN spend.v ELSE 0)
              /\ r.spent_to_date_cents > r.total_budget_cents
                     => r.remaining_budget_cents = 0
    /\ \A j \in DOMAIN camp :
          LET r == camp[j]
          IN  /\ r.remaining_budget_cents
                     = (IF r.total_budget_cents > r.spent_to_date_cents
                        THEN r.total_budget_cents - r.spent_to_date_cents ELSE 0)
              /\ r.spent_to_date_cents = agg[j].spent_to_date_cents
              /\ r.spent_to_date_cents > r.total_budget_cents
                     => r.remaining_budget_cents = 0

\* An overspent leaf row and the overspent campaign row made from it
C5_Witness ==
    /\ pc = "camp"
    /\ \E i \in DOMAIN leaf :
          /\ leaf[i].total_budget_cents > 0
          /\ leaf[i].spent_to_date_cents > leaf[i].total_budget_cents
          /\ leaf[i].remaining_budget_cents = 0
    /\ \E j \in DOMAIN camp :
          /\ camp[j].total_budget_cents > 0
          /\ camp[j].spent_to_date_cents > camp[j].total_budget_cents
          /\ camp[j].remaining_budget_cents = 0

-----------------------------------------------------------------------------
(* C6 - day math *)

Floor0(n) == IF n > 0 THEN n ELSE 0

Earlier(a, b) == IF a < b THEN a ELSE b

\* C6: in every row of compute_financials whose two dates are calendar dates,
\* total_days = max(0, end - start + 1),
\* active_days_total = max(0, total_days - paused_days_total),
\* elapsed_days = max(0, min(today, end) - start + 1),
\* elapsed_active_days = max(0, elapsed_days - paused_days_to_date) and
\* remaining_active_days = max(0, active_days_total - elapsed_active_days);
\* elapsed_days is 0 when the row starts after today and is total_days when it
\* ended before today.  In every row the five counts are non-negative and
\* remaining_active_days <= active_days_total.
C6_DayMath ==
    \A i \in DOMAIN leaf :
        LET r == leaf[i]
            s == r.start_date.day
            e == r.end_date.day
        IN  /\ r.total_days >= 0 /\ r.active_days_total >= 0
            /\ r.elapsed_days >= 0 /\ r.elapsed_active_days >= 0
            /\ r.remaining_active_days >= 0
            /\ r.remaining_active_days <= r.active_days_total
            /\ r.active_days_total = Floor0(r.total_days - r.paused_days_total)
            /\ r.elapsed_active_days = Floor0(r.elapsed_days - r.paused_days_to_date)
            /\ r.remaining_active_days
                   = Floor0(r.active_days_total - r.elapsed_active_days)
            /\ (~r.start_date.nat /\ ~r.end_date.nat) =>
                  /\ r.total_days = Floor0((e - s) + 1)
                  /\ r.elapsed_days = Floor0((Earlier(today, e) - s) + 1)
                  /\ (s > today => r.elapsed_days = 0)
                  /\ (e < today => r.elapsed_days = r.total_days)

\* A running row with pauses: started before today, ends after it, and every
\* count is positive
C6_Witness ==
    /\ pc = "leaf"
    /\ \E i \in DOMAIN leaf :
          LET r == leaf[i]
          IN  /\ ~r.start_date.nat /\ ~r.end_date.nat
              /\ r.start_date.day < today /\ today < r.end_date.day
              /\ r.paused_days_total = 1 /\ r.paused_days_to_date = 1
              /\ r.elapsed_days = (today - r.start_date.day) + 1
              /\ r.elapsed_days < r.total_days
              /\ r.elapsed_active_days > 0
              /\ r.remaining_active_days > 0

-----------------------------------------------------------------------------
(* C7 - expected spend to date *)

ExpectedSpendIsOneRounding(r) ==
    IF r.active_days_total <= 0
    THEN r.expected_spend_to_date_cents = 0
    ELSE IsHalfUp(r.expected_spend_to_date_cents,
                  r.total_budget_cents * r.elapsed_active_days,
                  r.active_days_total)

\* C7: in every leaf and campaign row expected_spend_to_date_cents is
\* total_budget_cents * elapsed_active_days / active_days_total rounded
\* half-up once (a tie away from zero, as ROUND_HALF_UP rounds), and 0 when
\* active_days_total <= 0; a row of 10000 cents over days 1..20 without
\* pauses, seen on day 10, has elapsed_active_days = 10, active_days_total = 20
\* and expected_spend_to_date_cents = 5000.
C7_ExpectedSpend ==
    /\ \A i \in DOMAIN leaf : ExpectedSpendIsOneRounding(leaf[i])
    /\ \A j \in DOMAIN camp : ExpectedSpendIsOneRounding(camp[j])
    /\ \A i \in DOMAIN leaf :
          LET r == leaf[i]
          IN  ( /\ r.total_budget_cents = 10000
                /\ r.start_date = Date(1) /\ r.end_date = Date(20)
                /\ today = 10
                /\ r.paused_days_total = 0 /\ r.paused_days_to_date = 0 )
              => /\ r.elapsed_active_days = 10
                 /\ r.active_days_total = 20
                 /\ r.expected_spend_to_date_cents = 5000

\* The 20-day row of the example on its day 10
C7_Witness ==
    /\ pc = "leaf"
    /\ today = 10
    /\ \E i \in DOMAIN leaf :
          /\ leaf[i].total_budget_cents = 10000
          /\ leaf[i].start_date = Date(1) /\ leaf[i].end_date = Date(20)
          /\ leaf[i].elapsed_active_days = 10
          /\ leaf[i].active_days_total = 20
          /\ leaf[i].expected_spend_to_date_cents = 5000

\* A proration that ends on half a cent is reached too: 5 cents, 1 of 2 days
C7_TieReached ==
    \E i \in DOMAIN leaf :
        /\ leaf[i].total_budget_cents = 5
        /\ leaf[i].elapsed_active_days = 1 /\ leaf[i].active_days_total = 2
        /\ leaf[i].expected_spend_to_date_cents = 3

-----------------------------------------------------------------------------
(* C8 - required daily spend *)

RequiredDailyIsDefinedAndRounded(r) ==
    /\ r.required_daily.none <=> r.remaining_active_days <= 0
    /\ ~r.required_daily.none =>
          /\ ~r.required_daily.neg
          /\ r.required_daily.frac \in 0..99
          /\ IsHalfUp(Shown(r.required_daily), r.remaining_budget_cents,
                      r.remaining_active_days)

\* C8: in every leaf and campaign row required_daily is absent exactly when
\* remaining_active_days <= 0, and otherwise shows
\* remaining_budget_cents / 100 / remaining_active_days rounded half-up to two
\* decimals; it is never a zero standing for absent.
C8_RequiredDaily ==
    /\ \A i \in DOMAIN leaf : RequiredDailyIsDefinedAndRounded(leaf[i])
    /\ \A j \in DOMAIN camp : RequiredDailyIsDefinedAndRounded(camp[j])

\* 5 cents left over 2 days is 0.025 a day, shown as 0.03; and the campaign
\* row made from it
C8_Witness ==
    /\ pc = "camp"
    /\ \E i \in DOMAIN leaf :
          /\ leaf[i].remaining_budget_cents = 5
          /\ leaf[i].remaining_active_days = 2
          /\ leaf[i].required_daily = Fmt2([neg |-> FALSE, h |-> 3])
    /\ \E j \in DOMAIN camp :
          /\ camp[j].remaining_active_days = 2
          /\ ~camp[j].required_daily.none

\* A row with no active day left shows no required_daily
C8_AbsentReached ==
    \E i \in DOMAIN leaf :
        leaf[i].remaining_active_days = 0 /\ leaf[i].required_daily.none

-----------------------------------------------------------------------------
(* C9 - pacing ratio *)

PacingAbsentIffNoExpectedSpend(r) ==
    /\ r.pacing_ratio.none <=> r.expected_spend_to_date_cents = 0
    /\ ~r.pacing_ratio.none =>
          IsHalfUp(Shown(r.pacing_ratio), 100 * r.spent_to_date_cents,
                   r.expected_spend_to_date_cents)

\* C9: in every leaf and campaign row pacing_ratio is absent exactly when
\* expected_spend_to_date_cents is 0, and otherwise shows
\* spent_to_date_cents / expected_spend_to_date_cents rounded to two decimals.
C9_PacingRatio ==
    /\ \A i \in DOMAIN leaf : PacingAbsentIffNoExpectedSpend(leaf[i])
    /\ \A j \in DOMAIN camp : PacingAbsentIffNoExpectedSpend(camp[j])

\* The same with budgets that are not negative: what C9 says of every row
\* whose total_budget_cents is >= 0
PacingRatioOfNonNegativeBudgets ==
    /\ \A i \in DOMAIN leaf :
          leaf[i].total_budget_cents >= 0 => PacingAbsentIffNoExpectedSpend(leaf[i])
    /\ \A j \in DOMAIN camp :
          camp[j].total_budget_cents >= 0 => PacingAbsentIffNoExpectedSpend(camp[j])

-----------------------------------------------------------------------------
(* C10 - minimum daily spend *)

\* The floors of MIN_DAILY_BY_CHANNEL, in hundredths
HasFloor(channel) == channel = "LinkedIn"

FloorOf(channel) == MinDailyLinkedIn

ViolationIffBelowFloor(r) ==
    r.min_daily_violation <=>
        /\ HasFloor(r.Channel)
        /\ ~r.required_daily.none
        /\ Shown(r.required_daily) < FloorOf(r.Channel)

\* C10: in every row min_daily_violation is true exactly when the channel has
\* a floor, required_daily is defined and required_daily is below the floor.
\* A LinkedIn row with 100 active days left is a violation with 500 cents
\* left (0.05 a day) and with 2000 cents left (0.20 a day), and is none from
\* required_daily = 10.00 on.
C10_MinDailyViolation ==
    /\ \A i \in DOMAIN leaf : ViolationIffBelowFloor(leaf[i])
    /\ \A j \in DOMAIN camp : ViolationIffBelowFloor(camp[j])
    /\ \A i \in DOMAIN leaf :
          LET r == leaf[i]
          IN  (r.Channel = "LinkedIn" /\ r.remaining_active_days = 100) =>
                 /\ r.remaining_budget_cents = 500 =>
                       Shown(r.required_daily) = 5 /\ r.min_daily_violation
                 /\ r.remaining_budget_cents = 2000 =>
                       Shown(r.required_daily) = 20 /\ r.min_daily_violation
                 /\ r.min_daily_violation <=> Shown(r.required_daily) < 1000

\* The LinkedIn row of the example: 500 cents over 100 days
C10_Witness ==
    /\ pc = "leaf"
    /\ \E i \in DOMAIN leaf :
          /\ leaf[i].Channel = "LinkedIn"
          /\ leaf[i].remaining_active_days = 100
          /\ leaf[i].remaining_budget_cents = 500
          /\ Shown(leaf[i].required_daily) = 5
          /\ leaf[i].min_daily_violation

\* The boundary from both sides, and a channel without a floor: 10.00 a day
\* is no violation, 9.99 a day is one, and 0.05 a day on Google is none
C10_AtFloorReached ==
    \E i \in DOMAIN leaf :
        /\ leaf[i].Channel = "LinkedIn"
        /\ ~leaf[i].required_daily.none
        /\ Shown(leaf[i].required_daily) = 1000 /\ ~leaf[i].min_daily_violation

C10_BelowFloorReached ==
    \E i \in DOMAIN leaf :
        /\ leaf[i].Channel = "LinkedIn"
        /\ ~leaf[i].required_daily.none
        /\ Shown(leaf[i].required_daily) = 999 /\ leaf[i].min_daily_violation

C10_NoFloorReached ==
    \E i \in DOMAIN leaf :
        /\ leaf[i].Channel = "Google"
        /\ ~leaf[i].required_daily.none
        /\ Shown(leaf[i].required_daily) = 5 /\ ~leaf[i].min_daily_violation

-----------------------------------------------------------------------------
(* C11 - forecasts *)

SignedNum(d) == (IF d.neg THEN -1 ELSE 1) * DecNum(d)

AbsentOrNonPositive(cell) ==
    LET d == to_decimal(cell) IN d.none \/ NonPositive(d)

LeadsFollowCPL(r) ==
    /\ r.forecast_leads.none <=> AbsentOrNonPositive(r.CPL)
    /\ ~r.forecast_leads.none =>
          IsHalfUp(Shown(r.forecast_leads),
                   r.total_budget_cents * DecDen(to_decimal(r.CPL)),
                   DecNum(to_decimal(r.CPL)))

ImpressionsFollowCPM(r) ==
    /\ r.forecast_impressions.none <=> AbsentOrNonPositive(r.CPM)
    /\ ~r.forecast_impressions.none =>
          IsHalfUp(Shown(r.forecast_impressions),
                   r.total_budget_cents * DecDen(to_decimal(r.CPM)) * 1000,
                   DecNum(to_decimal(r.CPM)))

ClicksAreImpressionsTimesCTR(r) ==
    ~r.forecast_clicks.none /\ ~to_decimal(r.CTR).none =>
        IsHalfUp(Shown(r.forecast_clicks),
                 Shown(r.forecast_impressions) * SignedNum(to_decimal(r.CTR)),
                 DecDen(to_decimal(r.CTR)))

ClicksFollowImpressionsAndCTR(r) ==
    /\ r.forecast_clicks.none <=>
          (r.forecast_impressions.none \/ AbsentOrNonPositive(r.CTR))
    /\ ClicksAreImpressionsTimesCTR(r)

ForecastsFollowInputs(r) ==
    LeadsFollowCPL(r) /\ ImpressionsFollowCPM(r) /\ ClicksFollowImpressionsAndCTR(r)

\* C11: in every leaf and campaign row forecast_leads is absent iff CPL is
\* absent or <= 0, forecast_impressions is absent iff CPM is absent or <= 0, and
\* forecast_clicks is absent iff forecast_impressions is absent or CTR is absent
\* or <= 0; a forecast that is defined shows projected_spend / CPL,
\* projected_spend / CPM * 1000 and forecast_impressions * CTR, with
\* projected_spend = total_budget_cents / 100.
C11_Forecasts ==
    /\ \A i \in DOMAIN leaf : ForecastsFollowInputs(leaf[i])
    /\ \A j \in DOMAIN camp : ForecastsFollowInputs(camp[j])

\* What the code does keep of C11: leads and impressions follow CPL and CPM as
\* stated, and clicks are absent iff impressions are absent or CTR is absent
ForecastsButForNonPositiveCTR ==
    \A r \in {leaf[i] : i \in DOMAIN leaf} \cup {camp[j] : j \in DOMAIN camp} :
        /\ LeadsFollowCPL(r) /\ ImpressionsFollowCPM(r)
        /\ r.forecast_clicks.none <=>
              (r.forecast_impressions.none \/ to_decimal(r.CTR).none)
        /\ ClicksAreImpressionsTimesCTR(r)

\* A row with CPM 2 and CTR 0 or below shows clicks
C11_ClicksOfNonPositiveCTR ==
    \E i \in DOMAIN leaf :
        /\ ~leaf[i].forecast_impressions.none
        /\ ~to_decimal(leaf[i].CTR).none /\ NonPositive(to_decimal(leaf[i].CTR))
        /\ ~leaf[i].forecast_clicks.none

-----------------------------------------------------------------------------
(* The hierarchy parser: split_group_path and map_platform.  A text is a   *)
(* sequence of one-character strings.                                      *)

Text(str) == [i \in 1..Len(str) |-> SubSeq(str, i, i)]

UpperCase == Text("ABCDEFGHIJKLMNOPQRSTUVWXYZ")

LowerCase == Text("abcdefghijklmnopqrstuvwxyz")

\* str.lower(), one character at a time
Lower(t) ==
    [i \in DOMAIN t |->
        IF \E k \in DOMAIN UpperCase : UpperCase[k] = t[i]
        THEN LowerCase[CHOOSE k \in DOMAIN UpperCase : UpperCase[k] = t[i]]
        ELSE t[i]]

\* str.contains(w) for a pattern w without metacharacters
Contains(t, w) ==
    \E i \in 1..(Len(t) - Len(w) + 1) : SubSeq(t, i, i + Len(w) - 1) = w

\* map_platform: "Other", then three masked assignments one after the other,
\* each overwriting what the ones before it set
map_platform(ch) ==
    LET c == Lower(ch)
        p0 == "Other"
        p1 == IF Contains(c, Text("linkedin")) THEN "LinkedIn" ELSE p0
        p2 == IF Contains(c, Text("google")) THEN "Google" ELSE p1
        p3 == IF \E w \in {"meta", "facebook", "instagram"} : Contains(c, Text(w))
              THEN "Meta" ELSE p2
    IN  p3

\* The length of the run of whitespace that starts at position p of t
RECURSIVE WsRun(_, _)
WsRun(t, p) ==
    IF p <= Len(t) /\ t[p] \in Whitespace THEN 1 + WsRun(t, p + 1) ELSE 0

\* The length of the match of \s*/\s*|\s*\|\s*|\s+I\s+ that starts at p, 0 when
\* none does
MatchLen(t, p) ==
    LET w == WsRun(t, p)
        q == p + w
    IN  IF q <= Len(t) /\ t[q] \in {"/", "|"} THEN w + 1 + WsRun(t, q + 1)
        ELSE IF w >= 1 /\ q <= Len(t) /\ t[q] = "I" /\ WsRun(t, q + 1) >= 1
             THEN w + 1 + WsRun(t, q + 1)
        ELSE 0

\* The same pattern with \s*I\s* for its last alternative: every "I" splits
MatchLenAnyI(t, p) ==
    LET w == WsRun(t, p)
        q == p + w
    IN  IF q <= Len(t) /\ t[q] \in {"/", "|", "I"} THEN w + 1 + WsRun(t, q + 1)
        ELSE 0

\* str.split(pattern): the texts between the matches, found left to right
RECURSIVE SplitFrom(_, _, _)
SplitFrom(t, from, p) ==
    IF p > Len(t) THEN <<SubSeq(t, from, Len(t))>>
    ELSE IF MatchLen(t, p) > 0
         THEN <<SubSeq(t, from, p - 1)>>
              \o SplitFrom(t, p + MatchLen(t, p), p + MatchLen(t, p))
    ELSE SplitFrom(t, from, p + 1)

RECURSIVE SplitFromAnyI(_, _, _)
SplitFromAnyI(t, from, p) ==
    IF p > Len(t) THEN <<SubSeq(t, from, Len(t))>>
    ELSE IF MatchLenAnyI(t, p) > 0
         THEN <<SubSeq(t, from, p - 1)>>
              \o SplitFromAnyI(t, p + MatchLenAnyI(t, p), p + MatchLenAnyI(t, p))
    ELSE SplitFromAnyI(t, from, p + 1)

SegAt(segs, i) == IF Len(segs) >= i THEN segs[i] ELSE <<>>

\* split_group_path splitting at every "I", also the ones inside a word
split_group_path_any_I(gp) ==
    LET s == IF gp = Text("nan") THEN <<>> ELSE gp
        segs == SplitFromAnyI(s, 1, 1)
    IN  [Program |-> SegAt(segs, 1), Industry |-> SegAt(segs, 2),
         Channel |-> SegAt(segs, 3)]

\* split_group_path(group_path) for one path; the text "nan" is what astype(str)
\* makes of a missing cell and is replaced by the empty text
split_group_path(gp) ==
    LET s == IF gp = Text("nan") THEN <<>> ELSE gp
        segs == SplitFrom(s, 1, 1)
    IN  [Program |-> SegAt(segs, 1), Industry |-> SegAt(segs, 2),
         Channel |-> SegAt(segs, 3)]

(* Paths: every text of up to MaxPathLen characters over a letter, "I" and *)
(* the delimiter characters, the paths of the documentation, and paths     *)
(* whose third segment names up to three platforms                         *)

PathAlphabet == {"A", "I", "/", "|", " "}

GeneratedPaths == UNION {[1..n -> PathAlphabet] : n \in 0..MaxPathLen}

SamplePaths ==
    {Text(x) : x \in {"BV / Nordcloud / AWS / Traffic",
                      "AO | General Funnel | Awareness",
                      "BV I DECERNO I Awareness I 2025",
                      "DIGITAL/AI Tools |Meta", "A \t/\t B\tI\tC", "nan"}}

ChannelWords ==
    {"", "LinkedIn", "linkedin", "Google", "meta", "Facebook", "instagram", "Ads"}

ChannelPaths ==
    {Text("P / I / ") \o Text(a) \o Text(" ") \o Text(b) \o Text(" ") \o Text(c) :
        a \in ChannelWords, b \in ChannelWords, c \in ChannelWords}

Paths == GeneratedPaths \cup SamplePaths \cup ChannelPaths

InitHierarchy ==
    /\ AuxIdle
    /\ PipeIdle
    /\ ReadIdle
    /\ LoadIdle
    /\ AppIdle
    /\ group_path \in Paths
    /\ hier = NoHier
    /\ platform = ""
    /\ pc = "path"

\* hier = split_group_path(group_path)
SplitGroupPath ==
    /\ pc = "path"
    /\ hier' = split_group_path(group_path)
    /\ pc' = "hier"
    /\ UNCHANGED <<auxVars, pipeVars, group_path, platform, readVars, loadVars,
                   appVars>>

\* "Platform": map_platform(hier["Channel"])
MapPlatform ==
    /\ pc = "hier"
    /\ platform' = map_platform(hier.Channel)
    /\ pc' = "platform"
    /\ UNCHANGED <<auxVars, pipeVars, group_path, hier, readVars, loadVars,
                   appVars>>

NextHierarchy == SplitGroupPath \/ MapPlatform

SpecHierarchy == InitHierarchy /\ [][NextHierarchy]_vars

-----------------------------------------------------------------------------
(* C12 - platform inference *)

Names(ch, w) == Contains(Lower(ch), Text(w))

NamesMeta(ch) == \E w \in {"meta", "facebook", "instagram"} : Names(ch, w)

\* C12: the platform of a text that contains a LinkedIn keyword is LinkedIn
\* whatever Google or Meta keyword it also contains, that of a text with a
\* Google keyword and no LinkedIn keyword is Google whatever Meta keyword it
\* also contains, then Meta, then Other.
C12_PlatformFirstMatchWins ==
    pc = "platform" =>
        /\ Names(hier.Channel, "linkedin") => platform = "LinkedIn"
        /\ Names(hier.Channel, "google") /\ ~Names(hier.Channel, "linkedin")
              => platform = "Google"
        /\ NamesMeta(hier.Channel) /\ ~Names(hier.Channel, "google")
              /\ ~Names(hier.Channel, "linkedin") => platform = "Meta"
        /\ ~NamesMeta(hier.Channel) /\ ~Names(hier.Channel, "google")
              /\ ~Names(hier.Channel, "linkedin") => platform = "Other"

\* What the code does instead: the last keyword group that matches wins, Meta
\* before Google before LinkedIn
PlatformLastMatchWins ==
    pc = "platform" =>
        platform = IF NamesMeta(hier.Channel) THEN "Meta"
                   ELSE IF Names(hier.Channel, "google") THEN "Google"
                   ELSE IF Names(hier.Channel, "linkedin") THEN "LinkedIn"
                   ELSE "Other"

\* A text with both "linkedin" and "google" has been mapped, to Google
C12_LinkedInAndGoogleReached ==
    /\ pc = "platform"
    /\ Names(hier.Channel, "linkedin") /\ Names(hier.Channel, "google")
    /\ platform = "Google"

-----------------------------------------------------------------------------
(* C13 - split_group_path *)

\* t[i] is a delimiter: a "/" or "|", or an "I" with whitespace on both sides
DelimiterAt(t, i) ==
    \/ t[i] \in {"/", "|"}
    \/ /\ t[i] = "I" /\ 1 < i /\ i < Len(t)
       /\ t[i - 1] \in Whitespace /\ t[i + 1] \in Whitespace

HasDelimiterIn(t) == \E i \in DOMAIN t : DelimiterAt(t, i)

\* The places <<a, b>> where t is cut after its first segment: t[1..a] has no
\* delimiter, and t[a+1..b] is the first delimiter of t with all the
\* whitespace around it
CutsOf(t) ==
    {c \in (0..Len(t)) \X (1..Len(t)) :
        /\ c[1] < c[2]
        /\ \E k \in (c[1] + 1)..c[2] :
              /\ DelimiterAt(t, k)
              /\ \A j \in 1..(k - 1) : ~DelimiterAt(t, j)
              /\ \A j \in ((c[1] + 1)..c[2]) \ {k} : t[j] \in Whitespace
        /\ c[1] = 0 \/ t[c[1]] \notin Whitespace
        /\ c[2] = Len(t) \/ t[c[2] + 1] \notin Whitespace}

\* ss are the first Len(ss) segments of t, "" standing for a missing one
RECURSIVE SegmentsAre(_, _)
SegmentsAre(t, ss) ==
    IF ss = <<>> THEN TRUE
    ELSE IF ~HasDelimiterIn(t)
         THEN Head(ss) = t /\ \A i \in 2..Len(ss) : ss[i] = <<>>
    ELSE /\ CutsOf(t) # {}
         /\ \A c \in CutsOf(t) :
               /\ Head(ss) = SubSeq(t, 1, c[1])
               /\ SegmentsAre(SubSeq(t, c[2] + 1, Len(t)), Tail(ss))

SplitsTo(path, program, industry, chan) ==
    group_path = Text(path) =>
        hier = [Program |-> Text(program), Industry |-> Text(industry),
                Channel |-> Text(chan)]

\* C13: Program, Industry and Channel are segments 0, 1 and 2 of the path cut
\* at "/" or "|" with the whitespace around them, or at an "I" with whitespace
\* on both sides; further segments are ignored, a missing segment (and a
\* missing path) gives the empty text, an "I" inside a word does not cut, and
\* the two documented paths give (BV, Nordcloud, AWS) and (AO, General Funnel,
\* Awareness).
C13_SplitGroupPath ==
    pc # "path" =>
        /\ IF group_path = Text("nan")
           THEN hier = NoHier
           ELSE SegmentsAre(group_path,
                            <<hier.Program, hier.Industry, hier.Channel>>)
        /\ SplitsTo("BV / Nordcloud / AWS / Traffic", "BV", "Nordcloud", "AWS")
        /\ SplitsTo("AO | General Funnel | Awareness",
                    "AO", "General Funnel", "Awareness")
        /\ SplitsTo("DIGITAL/AI Tools |Meta", "DIGITAL", "AI Tools", "Meta")

C13_Witness ==
    /\ pc = "hier"
    /\ group_path = Text("BV / Nordcloud / AWS / Traffic")
    /\ hier.Channel = Text("AWS")

\* Short paths are reached too: a word with an "I" inside, a missing third
\* segment, and an empty second one
C13_InnerIReached ==
    pc = "hier" /\ group_path = Text("AIA") /\ hier.Program = Text("AIA")

C13_MissingReached ==
    /\ pc = "hier" /\ group_path = Text("A I A")
    /\ hier = [Program |-> Text("A"), Industry |-> Text("A"), Channel |-> <<>>]

C13_EmptySegmentReached ==
    /\ pc = "hier" /\ group_path = Text("A/|A")
    /\ hier = [Program |-> Text("A"), Industry |-> <<>>, Channel |-> Text("A")]

-----------------------------------------------------------------------------
(* read_csv_with_header_detection.  Lines, cells and column names are      *)
(* strings; NaN is the string str() makes of it.                           *)

NaN == "nan"

\* The cell texts read_csv reads as NaN (its default na_values, in part)
NaTexts == {"", "nan", "NaN", "NA", "N/A", "null"}

MinOf(S) == CHOOSE i \in S : \A j \in S : i <= j

MaxOf(S) == CHOOSE i \in S : \A j \in S : i >= j

\* s.strip()
StrStrip(s) ==
    LET keep == {i \in 1..Len(s) : SubSeq(s, i, i) \notin Whitespace}
    IN  IF keep = {} THEN "" ELSE SubSeq(s, MinOf(keep), MaxOf(keep))

StrHas(s, c) == \E i \in 1..Len(s) : SubSeq(s, i, i) = c

\* re.search(r"[A-Za-z]", s)
HasAsciiLetter(s) ==
    \E i \in 1..Len(s) : \E k \in DOMAIN UpperCase :
        SubSeq(s, i, i) \in {UpperCase[k], LowerCase[k]}

\* The test of the loop of read_csv_with_header_detection: the line is not
\* empty-ish, not made of commas only, and has a comma and a letter
IsHeaderLine(line) ==
    /\ StrStrip(line) # ""
    /\ ~(\A i \in 1..Len(StrStrip(line)) : SubSeq(StrStrip(line), i, i) = ",")
    /\ StrHas(line, ",")
    /\ HasAsciiLetter(line)

\* The loop that takes any line with a comma for the header
detect_header_idx_any_comma(ls) ==
    IF \E i \in DOMAIN ls : StrHas(ls[i], ",")
    THEN MinOf({i \in DOMAIN ls : StrHas(ls[i], ",")}) - 1
    ELSE 0

\* header_idx after the loop: the index of the first header line, 0 when the
\* loop never breaks
detect_header_idx(ls) ==
    IF \E i \in DOMAIN ls : IsHeaderLine(ls[i])
    THEN MinOf({i \in DOMAIN ls : IsHeaderLine(ls[i])}) - 1
    ELSE 0

\* The fields of a line without quotes
RECURSIVE SplitFields(_)
SplitFields(line) ==
    IF ~StrHas(line, ",") THEN <<line>>
    ELSE LET k == MinOf({i \in 1..Len(line) : SubSeq(line, i, i) = ","})
         IN  <<SubSeq(line, 1, k - 1)>>
             \o SplitFields(SubSeq(line, k + 1, Len(line)))

DigitStr(k) == SubSeq("0123456789", k + 1, k + 1)

\* The column names read_csv makes of a header: "Unnamed: k" for an empty
\* cell, and ".n" added to the n-th repetition of a name
ColumnNames(header) ==
    LET named == [k \in DOMAIN header |->
                    IF header[k] = "" THEN "Unnamed: " \o DigitStr(k - 1)
                    ELSE header[k]]
        before(k) == Cardinality({j \in 1..(k - 1) : named[j] = named[k]})
    IN  [k \in DOMAIN named |->
            IF before(k) = 0 THEN named[k]
            ELSE named[k] \o "." \o DigitStr(before(k))]

RaisedFrame == [raised |-> TRUE, cols |-> <<>>, rows |-> <<>>]

\* pd.read_csv(path, skiprows=n, header=0): the first n lines are skipped,
\* blank lines after them too, the first line left is the header.  A file
\* with nothing left raises EmptyDataError, a data row with more fields than
\* the header ParserError (the files of the model have no first data row
\* longer than the header, which read_csv would take for an index column).
read_csv(ls, skiprows) ==
    LET rest == SelectSeq(SubSeq(ls, skiprows + 1, Len(ls)),
                          LAMBDA l : StrStrip(l) # "")
        header == SplitFields(rest[1])
        data == [i \in 1..(Len(rest) - 1) |-> SplitFields(rest[i + 1])]
    IN  IF rest = <<>> THEN RaisedFrame
        ELSE IF \E i \in DOMAIN data : Len(data[i]) > Len(header)
             THEN RaisedFrame
        ELSE [raised |-> FALSE,
              cols |-> ColumnNames(header),
              rows |-> [i \in DOMAIN data |->
                          [k \in DOMAIN header |->
                              IF k <= Len(data[i]) /\ data[i][k] \notin NaTexts
                              THEN data[i][k] ELSE NaN]]]

\* df.dropna(axis=1, how="all") and the strip of the column names
DropEmptyColumns(t) ==
    LET keep == {k \in DOMAIN t.cols : \E i \in DOMAIN t.rows : t.rows[i][k] # NaN}
        idx == SelectSeq([k \in DOMAIN t.cols |-> k], LAMBDA k : k \in keep)
    IN  [raised |-> FALSE,
         cols |-> [j \in DOMAIN idx |-> StrStrip(t.cols[idx[j]])],
         rows |-> [i \in DOMAIN t.rows |-> [j \in DOMAIN idx |-> t.rows[i][idx[j]]]]]

read_csv_with_header_detection(ls) ==
    LET t == read_csv(ls, detect_header_idx(ls))
    IN  IF t.raised THEN t ELSE DropEmptyColumns(t)

(* Files of up to MaxLines lines: blank lines, a line of commas, a title,  *)
(* headers and data rows, and the file of the documentation                *)

LineSamples ==
    {"", "  ", ",,", "Name,Budget,Spend", "A,100,50", "1,2,3", "Report 2025",
     " w,x,y,z"}

DocumentedFile == <<"", ",,,", "Name,Budget,Spend", "A,100,50">>

\* The first data row has more fields than the header
UsesIndexColumn(ls) ==
    LET rest == SelectSeq(SubSeq(ls, detect_header_idx(ls) + 1, Len(ls)),
                          LAMBDA l : StrStrip(l) # "")
    IN  Len(rest) >= 2 /\ Len(SplitFields(rest[2])) > Len(SplitFields(rest[1]))

GeneratedFiles ==
    {ls \in UNION {[1..n -> LineSamples] : n \in 0..MaxLines} :
        ~UsesIndexColumn(ls)}

InitHeader ==
    /\ AuxIdle
    /\ PipeIdle
    /\ HierIdle
    /\ LoadIdle
    /\ AppIdle
    /\ lines \in GeneratedFiles \cup {DocumentedFile}
    /\ header_idx = 0
    /\ frame = NoFrame
    /\ pc = "file"

ReadCsvWithHeaderDetection ==
    /\ pc = "file"
    /\ header_idx' = detect_header_idx(lines)
    /\ frame' = read_csv_with_header_detection(lines)
    /\ pc' = IF read_csv_with_header_detection(lines).raised
             THEN "raised" ELSE "frame"
    /\ UNCHANGED <<auxVars, pipeVars, hierVars, lines, loadVars, appVars>>

NextHeader == ReadCsvWithHeaderDetection

SpecHeader == InitHeader /\ [][NextHeader]_vars

-----------------------------------------------------------------------------
(* C14 - header detection *)

CharsOf(s) == {SubSeq(s, i, i) : i \in 1..Len(s)}

\* Commas, and nothing else but whitespace before and after them
MadeOfCommas(line) ==
    \E a \in 1..Len(line) : \E b \in a..Len(line) :
        /\ \A i \in 1..(a - 1) : SubSeq(line, i, i) \in Whitespace
        /\ \A i \in a..b : SubSeq(line, i, i) = ","
        /\ \A i \in (b + 1)..Len(line) : SubSeq(line, i, i) \in Whitespace

\* Non-blank, not made only of commas, with a comma and with a letter
LooksLikeHeader(line) ==
    /\ ~(CharsOf(line) \subseteq Whitespace)
    /\ ~MadeOfCommas(line)
    /\ "," \in CharsOf(line)
    /\ CharsOf(line) \cap (CharsOf("ABCDEFGHIJKLMNOPQRSTUVWXYZ")
                           \cup CharsOf("abcdefghijklmnopqrstuvwxyz")) # {}

\* The lines after line number i (counted from 0) that are not blank
DataLinesAfter(i) ==
    SelectSeq(SubSeq(lines, i + 2, Len(lines)),
              LAMBDA l : ~(CharsOf(l) \subseteq Whitespace))

IsSubSeqOf(a, b) ==
    \E f \in [DOMAIN a -> DOMAIN b] :
        /\ \A i \in DOMAIN a : a[i] = b[f[i]]
        /\ \A i, j \in DOMAIN a : i < j => f[i] < f[j]

\* C14: the detected index is that of the first line that is not blank, is not
\* made only of commas and has a comma and a letter (an ASCII letter, as the
\* headers are); the lines before it are skipped and the line is the header of
\* the table, whose rows are the lines after it.  The documented file gives
\* index 2 and one data row.
C14_HeaderDetection ==
    pc # "file" =>
        /\ \A i \in DOMAIN lines :
              LooksLikeHeader(lines[i])
              /\ (\A j \in 1..(i - 1) : ~LooksLikeHeader(lines[j]))
              => /\ header_idx = i - 1
                 /\ pc = "frame" =>
                       /\ IsSubSeqOf(frame.cols,
                                     [k \in DOMAIN SplitFields(lines[i]) |->
                                         StrStrip(SplitFields(lines[i])[k])])
                       /\ Len(frame.rows) = Len(DataLinesAfter(i - 1))
        /\ lines = DocumentedFile =>
              /\ header_idx = 2
              /\ pc = "frame"
              /\ frame.cols = <<"Name", "Budget", "Spend">>
              /\ frame.rows = <<(<<"A", "100", "50">>)>>

C14_Witness ==
    /\ pc = "frame"
    /\ lines = DocumentedFile
    /\ header_idx = 2
    /\ Len(frame.rows) = 1

\* A title and a line of commas are skipped before a header that is followed
\* by two rows
C14_PreambleReached ==
    /\ pc = "frame"
    /\ lines = <<"Report 2025", ",,", "Name,Budget,Spend", "A,100,50">>
    /\ header_idx = 2
    /\ frame.cols = <<"Name", "Budget", "Spend">>

-----------------------------------------------------------------------------
(* Tables: [raised, cols, rows], cols the column names in order, rows the  *)
(* rows as sequences of cells in the order of cols.  drop_duplicate_       *)
(* header_rows and load_local_budget_csvs.                                 *)

LowerChar(c) ==
    IF \E k \in DOMAIN UpperCase : UpperCase[k] = c
    THEN LowerCase[CHOOSE k \in DOMAIN UpperCase : UpperCase[k] = c]
    ELSE c

\* s.lower()
RECURSIVE StrLower(_)
StrLower(s) ==
    IF s = "" THEN ""
    ELSE LowerChar(SubSeq(s, 1, 1)) \o StrLower(SubSeq(s, 2, Len(s)))

\* df.empty: no row or no column
IsEmpty(t) == t.cols = <<>> \/ t.rows = <<>>

RECURSIVE Flatten(_)
Flatten(ss) == IF ss = <<>> THEN <<>> ELSE Head(ss) \o Flatten(Tail(ss))

\* The elements of a sequence in the order of their first occurrence
RECURSIVE Uniq(_)
Uniq(q) ==
    IF q = <<>> THEN <<>>
    ELSE LET u == Uniq(Front(q))
         IN  IF \E i \in DOMAIN u : u[i] = q[Len(q)] THEN u
             ELSE Append(u, q[Len(q)])

HasCol(cols, c) == \E k \in DOMAIN cols : cols[k] = c

\* The cell of a row in the first column named c, NaN without such a column
ValueAt(cols, row, c) ==
    IF HasCol(cols, c) THEN row[MinOf({k \in DOMAIN cols : cols[k] = c})]
    ELSE NaN

\* pd.concat(frames, ignore_index=True, sort=False): the union of the columns
\* in the order they first appear, NaN where a frame lacks a column
Concat(frames) ==
    LET cols == Uniq(Flatten([i \in DOMAIN frames |-> frames[i].cols]))
    IN  [raised |-> FALSE,
         cols |-> cols,
         rows |-> Flatten([i \in DOMAIN frames |->
                     [j \in DOMAIN frames[i].rows |->
                         [k \in DOMAIN cols |->
                             ValueAt(frames[i].cols, frames[i].rows[j], cols[k])]]])]

\* is_header_row(row): the number of cells equal to their column's name
HeaderMatches(cols, row) ==
    Cardinality({k \in DOMAIN cols :
        /\ StrLower(StrStrip(row[k])) = StrLower(StrStrip(cols[k]))
        /\ StrLower(StrStrip(cols[k])) # ""})

\* drop_duplicate_header_rows(df): a row goes when at least 2 and at least
\* half of the columns repeat their name in it
drop_duplicate_header_rows(t) ==
    IF IsEmpty(t) THEN t
    ELSE [t EXCEPT !.rows =
             SelectSeq(t.rows, LAMBDA row :
                 ~(HeaderMatches(t.cols, row) >= Max2(2, Len(t.cols) \div 2)))]

\* df["__source_file"] = p.name
WithSource(t, name) ==
    [raised |-> FALSE,
     cols |-> Append(t.cols, "__source_file"),
     rows |-> [i \in DOMAIN t.rows |-> Append(t.rows[i], name)]]

\* The frame that stands for a file that failed to parse
ErrorFrame(name) ==
    [raised |-> FALSE,
     cols |-> <<"__source_file", "__load_error">>,
     rows |-> <<(<<name, "failed_to_parse">>)>>]

\* The printable characters in the order of their code points, by which
\* groupby sorts its keys
CodePoints ==
    Text("\t !#$%&'()*+,-./0123456789:;<=>?@ABCDEFGHIJKLMNOPQRSTUVWXYZ[]^_abcdefghijklmnopqrstuvwxyz{|}~")

CodePoint(c) == MinOf({k \in DOMAIN CodePoints : CodePoints[k] = c})

\* a < b for two texts
RECURSIVE StrLess(_, _)
StrLess(a, b) ==
    IF b = "" THEN FALSE
    ELSE IF a = "" THEN TRUE
    ELSE IF SubSeq(a, 1, 1) = SubSeq(b, 1, 1)
         THEN StrLess(SubSeq(a, 2, Len(a)), SubSeq(b, 2, Len(b)))
         ELSE CodePoint(SubSeq(a, 1, 1)) < CodePoint(SubSeq(b, 1, 1))

\* a < b for two tuples of texts of one length
RECURSIVE TupleLess(_, _)
TupleLess(a, b) ==
    IF a = <<>> THEN FALSE
    ELSE IF Head(a) = Head(b) THEN TupleLess(Tail(a), Tail(b))
    ELSE StrLess(Head(a), Head(b))

RECURSIVE SortTuples(_)
SortTuples(ks) ==
    IF ks = {} THEN <<>>
    ELSE LET m == CHOOSE k \in ks : \A o \in ks \ {k} : TupleLess(k, o)
         IN  <<m>> \o SortTuples(ks \ {m})

\* sorted(base_dir.glob("Copy of Budgets*.csv")): the files by name
\* sorted_paths leaving the paths in the order glob yields them
listed_paths(files) == files

sorted_paths(files) ==
    LET names == SortTuples({<<files[i].name>> : i \in DOMAIN files})
    IN  [k \in DOMAIN names |->
            files[CHOOSE i \in DOMAIN files : files[i].name = names[k][1]]]

\* The loop of load_local_budget_csvs over the paths
FramesOf(files) ==
    [i \in DOMAIN files |->
        IF read_csv_with_header_detection(files[i].lines).raised
        THEN ErrorFrame(files[i].name)
        ELSE WithSource(read_csv_with_header_detection(files[i].lines),
                        files[i].name)]

\* The body of load_local_budget_csvs, run on the files on disk
load_local_budget_csvs(files) ==
    IF files = <<>> THEN NoFrame
    ELSE drop_duplicate_header_rows(Concat(FramesOf(sorted_paths(files))))

-----------------------------------------------------------------------------
(* Column names and the column resolver *)

\* The text of a sequence of characters
RECURSIVE Joined(_)
Joined(t) == IF t = <<>> THEN "" ELSE Head(t) \o Joined(Tail(t))

\* \w of the regular expressions, on the ASCII names used here
WordChar(c) ==
    \/ c \in Digits
    \/ c = "_"
    \/ \E k \in DOMAIN LowerCase : c = LowerCase[k] \/ c = UpperCase[k]

\* re.sub(r"[^\w]+", "_", s) followed by re.sub(r"_+", "_", s): every run of
\* underscores and other non-word characters becomes one underscore
RECURSIVE Underscored(_)
Underscored(t) ==
    IF t = <<>> THEN <<>>
    ELSE LET u == Underscored(Front(t))
             c == IF WordChar(t[Len(t)]) THEN t[Len(t)] ELSE "_"
         IN  IF c = "_" /\ u # <<>> /\ u[Len(u)] = "_" THEN u ELSE Append(u, c)

\* s.strip("_")
StripUnderscores(t) ==
    LET keep == {i \in DOMAIN t : t[i] # "_"}
    IN  IF keep = {} THEN <<>> ELSE SubSeq(t, MinOf(keep), MaxOf(keep))

\* normalize_colname(name); the names here are ASCII, so the replacement of
\* the arrow character has nothing to act on
normalize_colname(name) ==
    Joined(StripUnderscores(Underscored(Text(StrLower(StrStrip(name))))))

\* df.rename(columns={c: normalize_colname(c) for c in df.columns})
NormalizedCols(cols) == [k \in DOMAIN cols |-> normalize_colname(cols[k])]

\* first_existing_col(df, candidates): <<c>> for the first candidate c that is
\* a column, <<>> for None
first_existing_col(cols, candidates) ==
    LET hits == {i \in DOMAIN candidates : HasCol(cols, candidates[i])}
    IN  IF hits = {} THEN <<>> ELSE <<candidates[MinOf(hits)]>>

START_DATE_ALIASES == <<"start_date", "start", "startdatum", "period_start">>

END_DATE_ALIASES == <<"end_date", "end", "slutdatum", "period_end">>

TOTAL_BUDGET_ALIASES == <<"total_budget", "budget", "planned_spend">>

TOTAL_SPENT_ALIASES ==
    <<"spent_to_date", "total_spent", "spend", "amount_spent", "cost", "spent">>

GroupPathCandidates ==
    <<"group", "campaign_group_name", "campaign_group",
      "campaign_group_budget", "campaign_group_name_">>

CampaignNameCandidates == <<"campaign", "campaign_name">>

BudgetCandidates ==
    <<"lifetime_budget", "current_budget_total", "current_total",
      "total_budget", "planned_spend", "budget", "current_budget",
      "new_budget", "new_total", "new_budget_allocation_campaign_level",
      "current_budget_allocation_campaign_level">>

SpendCandidates ==
    <<"spent_to_date", "spent", "total_spent", "amount_spent", "cost",
      "current_budget_utilisation", "current_spend">>

StatusCandidates == <<"status", "current_status", "off_on">>

infer_group_path_column(cols) == first_existing_col(cols, GroupPathCandidates)

infer_campaign_name_column(cols) ==
    first_existing_col(cols, CampaignNameCandidates)

infer_budget_column(cols) == first_existing_col(cols, BudgetCandidates)

infer_spend_column(cols) == first_existing_col(cols, SpendCandidates)

infer_status_column(cols) == first_existing_col(cols, StatusCandidates)

\* col_as_1d_series(df, col, default) at one row: the default without the
\* column, else the cell of the first column of that name
col_as_1d_series(cols, row, col, default) ==
    IF col = <<>> \/ ~HasCol(cols, col[1]) THEN default
    ELSE ValueAt(cols, row, col[1])

-----------------------------------------------------------------------------
(* build_fact_table *)

\* _is_totalish(s)
is_totalish(v) ==
    LET t == StrLower(StrStrip(v))
    IN  \/ Len(t) >= Len("total") /\ SubSeq(t, 1, Len("total")) = "total"
        \/ t \in {"tot", "sum", "grand_total"}

\* A cell of the combined table as the money parser sees it
MoneyCell(v) == IF v = NaN THEN NA ELSE Str(Text(v))

\* The texts pd.to_datetime reads as the days 1, 2, 3 of the model's calendar
DateTexts == <<"2025-01-01", "2025-01-02", "2025-01-03">>

\* A cell of the combined table as parse_date_col sees it
DateCellOf(v) ==
    IF \E k \in DOMAIN DateTexts : DateTexts[k] = v
    THEN DateCell(CHOOSE k \in DOMAIN DateTexts : DateTexts[k] = v)
    ELSE IF v = NaN THEN NoDate ELSE TextDate

\* parse_date_col(col).fillna(today_d) at one cell
date_or_today(v, td) ==
    IF parse_date_col(DateCellOf(v)).nat THEN td
    ELSE parse_date_col(DateCellOf(v)).day

\* One row of the frame `out` of build_fact_table, from row i of the combined
\* table under its normalized columns; the row keeps its index label
fact_out_row(cols, row, i, td) ==
    LET gp == col_as_1d_series(cols, row, infer_group_path_column(cols), "")
        h == split_group_path(Text(gp))
    IN  [Group |-> gp,
         Program |-> Joined(h.Program),
         Industry |-> Joined(h.Industry),
         Channel |-> Joined(h.Channel),
         Platform |-> map_platform(h.Channel),
         Campaign |->
             col_as_1d_series(cols, row, infer_campaign_name_column(cols), ""),
         Status |-> col_as_1d_series(cols, row, infer_status_column(cols), ""),
         start_date |-> date_or_today(
             col_as_1d_series(cols, row,
                 first_existing_col(cols, START_DATE_ALIASES), NaN), td),
         end_date |-> date_or_today(
             col_as_1d_series(cols, row,
                 first_existing_col(cols, END_DATE_ALIASES), NaN), td),
         budget_cents |-> cents_or_zero(MoneyCell(
             col_as_1d_series(cols, row, infer_budget_column(cols), NaN))),
         spend_cents |-> cents_or_zero(MoneyCell(
             col_as_1d_series(cols, row, infer_spend_column(cols), NaN))),
         source_file |-> col_as_1d_series(cols, row, <<"__source_file">>, ""),
         index |-> i]

\* The frame `out` of build_fact_table before it is grouped: one row per row
\* of the combined table, the total rows removed
build_fact_out(t, td) ==
    IF IsEmpty(t) \/ infer_group_path_column(NormalizedCols(t.cols)) = <<>>
    THEN <<>>
    ELSE SelectSeq(
             [i \in DOMAIN t.rows |->
                 fact_out_row(NormalizedCols(t.cols), t.rows[i], i, td)],
             LAMBDA r : ~(is_totalish(r.Group) \/ is_totalish(r.Campaign)))

FactKey(r) ==
    <<r.Program, r.Industry, r.Channel, r.Platform, r.Group, r.Campaign>>

\* groupby(key_cols, dropna=False): the sums of the cents, the first start and
\* the last end of each key, the keys in sorted order
group_fact(out) ==
    LET keys == SortTuples({FactKey(out[i]) : i \in DOMAIN out})
    IN  [k \in DOMAIN keys |->
            LET g == SelectSeq(out, LAMBDA r : FactKey(r) = keys[k])
            IN  [Program |-> g[1].Program,
                 Industry |-> g[1].Industry,
                 Channel |-> g[1].Channel,
                 Platform |-> g[1].Platform,
                 Group |-> g[1].Group,
                 Campaign |-> g[1].Campaign,
                 budget_cents |-> SumSeq([i \in DOMAIN g |-> g[i].budget_cents]),
                 spend_cents |-> SumSeq([i \in DOMAIN g |-> g[i].spend_cents]),
                 start_date |-> MinSeq([i \in DOMAIN g |-> g[i].start_date]),
                 end_date |-> MaxSeq([i \in DOMAIN g |-> g[i].end_date])]]

\* build_fact_table(raw_combined); the empty sequence is the empty frame
build_fact_table(t, td) == group_fact(build_fact_out(t, td))

-----------------------------------------------------------------------------
(* The files on disk.  Every file is [name, lines]; the names match the    *)
(* pattern "Copy of Budgets*.csv".                                         *)

MaxFiles == 2     \* most files on disk
MaxEdits == 1     \* most changes made to the files between two runs

File(name, ls) == [name |-> name, lines |-> ls]

\* A group export that repeats its header after the data
GroupExport ==
    <<"Group,Budget,Spent",
      "BV / Nordcloud / LinkedIn,100,50",
      "Group,Budget,Spent">>

\* The same export without the repeated header
GroupExportClean ==
    <<"Group,Budget,Spent",
      "BV / Nordcloud / LinkedIn,100,50">>

\* A campaign export (format B of parse_local_data_to_canonical)
CampaignExport ==
    <<"campaign group name,campaign name,Lifetime Budget,Spent to date,Status",
      "AO | General | Google,Brand,200,20,on">>

\* A file with a data row longer than its header (ParserError)
RaggedFile == <<"a,b", "1,2", "1,2,3">>

\* A file of an unknown schema
UnknownSchema == <<"foo,bar", "1,2">>

\* A group file with nothing but a total row
TotalsOnly == <<"Group,Budget", "Total,100">>

\* A file with a header and no data
HeaderOnly == <<"Group,Budget">>

\* A "Group to Campaign" sheet (format A)
GroupToCampaignSheet ==
    <<"group_to_campaign,Current Budget,Spent,Start",
      "AWS / Traffic / Meta > SI Partner,300,30,2025-01-02">>

\* A planning file (format C)
PlanningFile ==
    <<"Campaign Group,Campaign Name,The end date,CPL",
      "BV / X / Google,Launch,2025-01-03,4">>

\* A sheet with two columns whose names normalize to group_to_campaign
TwoGroupColumns ==
    <<"Group to Campaign,group_to_campaign,Current Budget",
      "A / B / C > K,A / B / C,10">>

\* The files the script is run on
ScriptFiles ==
    <<File("Copy of Budgets a.csv", GroupExport),
      File("Copy of Budgets b.csv", CampaignExport),
      File("Copy of Budgets c.csv", <<>>),
      File("Copy of Budgets d.csv", UnknownSchema),
      File("Copy of Budgets e.csv", TotalsOnly),
      File("Copy of Budgets f.csv", HeaderOnly)>>

\* All the files, those of the other formats included
Catalogue ==
    ScriptFiles \o
    <<File("Copy of Budgets g.csv", RaggedFile),
      File("Copy of Budgets h.csv", GroupToCampaignSheet),
      File("Copy of Budgets i.csv", PlanningFile),
      File("Copy of Budgets j.csv", TwoGroupColumns)>>

RECURSIVE PickFiles(_)
PickFiles(S) ==
    IF S = {} THEN <<>>
    ELSE <<Catalogue[MinOf(S)]>> \o PickFiles(S \ {MinOf(S)})

\* The directories of up to MaxFiles of the files numbered in I
DisksOf(I) ==
    {PickFiles(S) : S \in {T \in SUBSET I : Cardinality(T) <= MaxFiles}}

\* What a file can be overwritten with between two runs
EditedContents == {GroupExportClean, <<>>}

\* The days the script can run on
AppDays == {1, Len(DateTexts)}

-----------------------------------------------------------------------------
(* The script: it loads the files through the cache, builds the fact table *)
(* and renders the page chosen in the sidebar.  Every interaction runs it  *)
(* again from the top; the cache entry lives across the runs.              *)

Pages == {"Budget Overview", "Performance", "Simulation"}

\* `if raw.empty:` of the script
raw_guard(t) == IsEmpty(t)

\* The guard on the fact table left out
fact_guard_never(f) == FALSE

\* `if fact.empty:` of the script
fact_guard(f) == f = <<>>

InitApp ==
    /\ AuxIdle
    /\ series = <<>>
    /\ cents_out = <<>>
    /\ today \in AppDays
    /\ raw = <<>>
    /\ leaf = <<>>
    /\ agg = <<>>
    /\ camp = <<>>
    /\ HierIdle
    /\ ReadIdle
    /\ disk \in DisksOf(DOMAIN ScriptFiles)
    /\ cache = NoCache
    /\ raw_combined = NoFrame
    /\ read_files = <<>>
    /\ served = "none"
    /\ resync = FALSE
    /\ answered = FALSE
    /\ edits = 0
    /\ AppIdle
    /\ pc = "start"

\* raw = load_local_budget_csvs() under @st.cache_data(ttl=300): the body
\* runs only when the cache holds no entry
LoadLocalBudgetCsvs ==
    /\ pc = "start"
    /\ IF cache.valid
       THEN /\ raw_combined' = cache.value
            /\ served' = "cached"
            /\ UNCHANGED <<cache, read_files>>
       ELSE /\ raw_combined' = load_local_budget_csvs(disk)
            /\ cache' = [valid |-> TRUE, value |-> load_local_budget_csvs(disk)]
            /\ read_files' = sorted_paths(disk)
            /\ served' = "fresh"
    /\ answered' = resync
    /\ resync' = FALSE
    /\ pc' = "loaded"
    /\ UNCHANGED <<auxVars, pipeVars, hierVars, readVars, disk, edits, appVars>>

\* if raw.empty: st.error(...); st.stop()
CheckRaw ==
    /\ pc = "loaded"
    /\ IF raw_guard(raw_combined)
       THEN error' = "No local CSV files found" /\ pc' = "stopped"
       ELSE error' = error /\ pc' = "raw_ok"
    /\ UNCHANGED <<auxVars, pipeVars, hierVars, readVars, loadVars,
                   fact_out, fact, canon, parse_errors, page>>

\* fact = build_fact_table(raw)
BuildFactTable ==
    /\ pc = "raw_ok"
    /\ fact_out' = build_fact_out(raw_combined, today)
    /\ fact' = build_fact_table(raw_combined, today)
    /\ pc' = "built"
    /\ UNCHANGED <<auxVars, pipeVars, hierVars, readVars, loadVars,
                   canon, parse_errors, error, page>>

\* if fact.empty: st.error(...); st.stop()
CheckFact ==
    /\ pc = "built"
    /\ IF fact_guard(fact)
       THEN error' = "Could not build a hierarchy fact table" /\ pc' = "stopped"
       ELSE error' = error /\ pc' = "menu"
    /\ UNCHANGED <<auxVars, pipeVars, hierVars, readVars, loadVars,
                   fact_out, fact, canon, parse_errors, page>>

\* page = st.radio(...) and the branch of the chosen page
RenderPage ==
    /\ pc = "menu"
    /\ \E p \in Pages : page' = p
    /\ pc' = "rendered"
    /\ UNCHANGED <<auxVars, pipeVars, hierVars, readVars, loadVars,
                   fact_out, fact, canon, parse_errors, error>>

RunEnded == pc \in {"stopped", "rendered"}

\* What a new run starts from: the script's own names are unset
NewRun ==
    /\ pc' = "start"
    /\ raw_combined' = NoFrame
    /\ served' = "none"
    /\ answered' = FALSE
    /\ fact_out' = <<>>
    /\ fact' = <<>>
    /\ error' = ""
    /\ page' = ""
    /\ UNCHANGED <<auxVars, pipeVars, hierVars, readVars, disk, cache, read_files,
                   edits, canon, parse_errors>>

\* An interaction with a widget: the script runs again
Rerun ==
    /\ RunEnded
    /\ resync' = resync
    /\ NewRun

\* The caller asks for the files to be read again.  The script has no entry
\* point of its own for this: all the caller can do is have it run again.
ReSync ==
    /\ RunEnded
    /\ resync' = TRUE
    /\ NewRun

\* A file is overwritten between two runs
ModifyFile ==
    /\ RunEnded
    /\ edits < MaxEdits
    /\ \E i \in DOMAIN disk, c \in EditedContents :
          /\ c # disk[i].lines
          /\ disk' = [disk EXCEPT ![i].lines = c]
    /\ edits' = edits + 1
    /\ UNCHANGED <<auxVars, pipeVars, pc, hierVars, readVars, cache, raw_combined,
                   read_files, served, resync, answered, appVars>>

\* The entry is older than ttl=300 seconds
CacheExpires ==
    /\ RunEnded
    /\ cache.valid
    /\ cache' = NoCache
    /\ UNCHANGED <<auxVars, pipeVars, pc, hierVars, readVars, disk, raw_combined,
                   read_files, served, resync, answered, edits, appVars>>

NextApp ==
    \/ LoadLocalBudgetCsvs
    \/ CheckRaw
    \/ BuildFactTable
    \/ CheckFact
    \/ RenderPage
    \/ Rerun
    \/ ReSync
    \/ ModifyFile
    \/ CacheExpires

SpecApp == InitApp /\ [][NextApp]_vars

-----------------------------------------------------------------------------
(* parse_local_data_to_canonical.  The canonical table is a frame over     *)
(* CANON_COLS; None and NaN are the text "nan", today is its date text.    *)

CANON_COLS ==
    <<"Program", "Industry", "Channel", "Campaign", "Phase",
      "start_date", "end_date",
      "total_budget_baseline", "total_budget_whatif", "spent_to_date",
      "paused_days_total", "paused_days_to_date",
      "CPM", "CTR", "CPL", "__source_file", "__parse_error">>

\* The length of the match of \s*[delims]\s* that starts at p, 0 when none does
DelimLen(t, p, delims) ==
    IF p + WsRun(t, p) <= Len(t) /\ t[p + WsRun(t, p)] \in delims
    THEN WsRun(t, p) + 1 + WsRun(t, p + WsRun(t, p) + 1)
    ELSE 0

\* str.split(r"\s*[delims]\s*", n=left): at most `left` cuts, left to right
RECURSIVE SplitOn(_, _, _, _, _)
SplitOn(t, delims, from, p, left) ==
    IF p > Len(t) \/ left = 0 THEN <<SubSeq(t, from, Len(t))>>
    ELSE IF DelimLen(t, p, delims) > 0
         THEN <<SubSeq(t, from, p - 1)>>
              \o SplitOn(t, delims, p + DelimLen(t, p, delims),
                         p + DelimLen(t, p, delims), left - 1)
    ELSE SplitOn(t, delims, from, p + 1, left)

\* seg_at(segs_df, idx) at one row
seg_at(segs, idx) == Joined(SegAt(segs, idx + 1))

\* The columns of df once the synonyms are copied (lines 331-338): the
\* column that holds name c, <<>> when df has no such column
DfCol(cols, c) ==
    IF HasCol(cols, c) THEN <<c>>
    ELSE IF c = "start_date" THEN first_existing_col(cols, START_DATE_ALIASES)
    ELSE IF c = "end_date" THEN first_existing_col(cols, END_DATE_ALIASES)
    ELSE IF c = "total_budget" THEN first_existing_col(cols, TOTAL_BUDGET_ALIASES)
    ELSE IF c = "spent_to_date" THEN first_existing_col(cols, TOTAL_SPENT_ALIASES)
    ELSE <<>>

\* df.get(c, None) at one row
DfGet(cols, row, c) == col_as_1d_series(cols, row, DfCol(cols, c), NaN)

\* The first of the names that df has as a column, as the nested
\* conditionals of the formats pick it; None without any
DfFirst(cols, row, names) ==
    LET hits == {i \in DOMAIN names : DfCol(cols, names[i]) # <<>>}
    IN  IF hits = {} THEN NaN ELSE DfGet(cols, row, names[MinOf(hits)])

StartsWith(str, prefix) ==
    Len(str) >= Len(prefix) /\ SubSeq(str, 1, Len(prefix)) = prefix

IsFormatA(cols) ==
    /\ HasCol(cols, "group_to_campaign")
    /\ \E k \in DOMAIN cols : StartsWith(cols[k], "current_budget")

IsFormatB(cols) ==
    /\ HasCol(cols, "campaign_group_name")
    /\ HasCol(cols, "campaign_name")
    /\ \E c \in {"spent", "spent_to_date", "spend", "cost", "amount_spent"} :
          HasCol(cols, c)

IsFormatC(cols) ==
    /\ HasCol(cols, "campaign_group")
    /\ HasCol(cols, "campaign_name")
    /\ HasCol(cols, "the_end_date")

\* The branch the columns select, the tests taken in the order of the code
FormatOf(cols) ==
    IF IsFormatA(cols) THEN "A"
    ELSE IF IsFormatB(cols) THEN "B"
    ELSE IF IsFormatC(cols) THEN "C"
    ELSE "unknown"

\* The column the branch splits the hierarchy from
FormatGroupCol(fmt) ==
    IF fmt = "A" THEN "group_to_campaign"
    ELSE IF fmt = "B" THEN "campaign_group_name"
    ELSE "campaign_group"

\* df[group_col].astype(str).str raises AttributeError when two columns of
\* the table normalize to the name of the group column: the selection is
\* then a DataFrame.  The files here duplicate no other name.
NormalizationRaises(cols) ==
    /\ FormatOf(cols) # "unknown"
    /\ Cardinality({k \in DOMAIN cols : cols[k] = FormatGroupCol(FormatOf(cols))}) > 1

\* The canonical row of format A
CanonRowA(cols, row, source) ==
    LET parts == SplitOn(Text(ValueAt(cols, row, "group_to_campaign")),
                         {">"}, 1, 1, 1)
        gp == Joined(parts[1])
        second == IF Len(parts) > 1 THEN Joined(parts[2]) ELSE ""
        segs == SplitOn(Text(gp), {"/"}, 1, 1, Len(gp))
    IN  <<seg_at(segs, 0), seg_at(segs, 1), seg_at(segs, 2),
          IF StrStrip(second) # "" THEN second ELSE gp,
          "",
          DfGet(cols, row, "start_date"),
          DfGet(cols, row, "end_date"),
          DfFirst(cols, row, <<"total_budget", "current_budget">>),
          DfFirst(cols, row, <<"new_budget", "total_budget", "current_budget">>),
          DfGet(cols, row, "spent_to_date"),
          "0", "0", NaN, NaN, NaN, source, NaN>>

\* The canonical row of format B
CanonRowB(cols, row, source) ==
    LET gp == ValueAt(cols, row, "campaign_group_name")
        segs == SplitOn(Text(gp), {"/", "|"}, 1, 1, Len(gp))
    IN  <<seg_at(segs, 0), seg_at(segs, 1), seg_at(segs, 2),
          ValueAt(cols, row, "campaign_name"),
          "",
          DfGet(cols, row, "start_date"),
          DfGet(cols, row, "end_date"),
          DfGet(cols, row, "total_budget"),
          DfGet(cols, row, "total_budget"),
          DfFirst(cols, row, <<"spent_to_date", "spent">>),
          "0", "0",
          ValueAt(cols, row, "cpm"), ValueAt(cols, row, "ctr"),
          ValueAt(cols, row, "cpl"), source, NaN>>

\* The canonical row of format C
CanonRowC(cols, row, source) ==
    LET gp == ValueAt(cols, row, "campaign_group")
        segs == SplitOn(Text(gp), {"/", "|"}, 1, 1, Len(gp))
    IN  <<seg_at(segs, 0), seg_at(segs, 1), seg_at(segs, 2),
          ValueAt(cols, row, "campaign_name"),
          "",
          DfGet(cols, row, "start_date"),
          ValueAt(cols, row, "the_end_date"),
          NaN, NaN, NaN,
          "0", "0", NaN, NaN, ValueAt(cols, row, "cpl"), source, NaN>>

CanonRow(cols, row, source) ==
    IF FormatOf(cols) = "A" THEN CanonRowA(cols, row, source)
    ELSE IF FormatOf(cols) = "B" THEN CanonRowB(cols, row, source)
    ELSE CanonRowC(cols, row, source)

\* raw.groupby("__source_file", dropna=False): the source names in sorted order
SourcesOf(t) ==
    LET ks == SortTuples({<<ValueAt(t.cols, t.rows[i], "__source_file")>> :
                             i \in DOMAIN t.rows})
    IN  [k \in DOMAIN ks |-> ks[k][1]]

\* The parse_errors list: one entry for every source whose normalization
\* raised.  Every group has all the columns of the combined table, so the
\* branch taken and the exception are the same for all the sources of a load.
parse_errors_of(t) ==
    IF IsEmpty(t) \/ ~NormalizationRaises(NormalizedCols(t.cols)) THEN <<>>
    ELSE [k \in DOMAIN SourcesOf(t) |->
             [source_file |-> SourcesOf(t)[k], parse_error |-> "AttributeError"]]

\* The frames list, concatenated: the canonical rows of every source that
\* reached a format branch, source by source
canon_frames(t) ==
    IF \/ IsEmpty(t)
       \/ NormalizationRaises(NormalizedCols(t.cols))
       \/ FormatOf(NormalizedCols(t.cols)) = "unknown"
    THEN <<>>
    ELSE Flatten([k \in DOMAIN SourcesOf(t) |->
             LET mine == SelectSeq(t.rows, LAMBDA row :
                     ValueAt(t.cols, row, "__source_file") = SourcesOf(t)[k])
             IN  [i \in DOMAIN mine |->
                     CanonRow(NormalizedCols(t.cols), mine[i], SourcesOf(t)[k])]])

\* out[c].fillna(today_d) for the two date columns of a canonical row
DatesDefaulted(row, td) ==
    [k \in DOMAIN row |->
        IF CANON_COLS[k] \in {"start_date", "end_date"} /\ row[k] = NaN
        THEN DateTexts[td] ELSE row[k]]

\* The row of err_df[CANON_COLS] for one entry of parse_errors
ErrorRow(err, td) ==
    [k \in DOMAIN CANON_COLS |->
        IF CANON_COLS[k] = "__source_file" THEN err.source_file
        ELSE IF CANON_COLS[k] = "__parse_error" THEN err.parse_error
        ELSE IF CANON_COLS[k] \in {"start_date", "end_date"} THEN DateTexts[td]
        ELSE NaN]

\* parse_local_data_to_canonical(raw): the empty table as it is; otherwise the
\* canonical rows, the header rows among them dropped and the dates
\* defaulted, followed by one row for every entry of parse_errors
parse_local_data_to_canonical(t, td) ==
    IF IsEmpty(t) THEN t
    ELSE LET kept == drop_duplicate_header_rows(
                         [raised |-> FALSE, cols |-> CANON_COLS,
                          rows |-> canon_frames(t)]).rows
         IN  [raised |-> FALSE,
              cols |-> CANON_COLS,
              rows |-> [i \in DOMAIN kept |-> DatesDefaulted(kept[i], td)]
                       \o [i \in DOMAIN parse_errors_of(t) |->
                              ErrorRow(parse_errors_of(t)[i], td)]]

\* A session that loads the files and normalizes them
InitCanonical ==
    /\ AuxIdle
    /\ series = <<>>
    /\ cents_out = <<>>
    /\ today \in AppDays
    /\ raw = <<>>
    /\ leaf = <<>>
    /\ agg = <<>>
    /\ camp = <<>>
    /\ HierIdle
    /\ ReadIdle
    /\ disk \in DisksOf(DOMAIN Catalogue)
    /\ cache = NoCache
    /\ raw_combined = NoFrame
    /\ read_files = <<>>
    /\ served = "none"
    /\ resync = FALSE
    /\ answered = FALSE
    /\ edits = 0
    /\ AppIdle
    /\ pc = "start"

\* canon = parse_local_data_to_canonical(raw)
ParseLocalDataToCanonical ==
    /\ pc = "loaded"
    /\ canon' = parse_local_data_to_canonical(raw_combined, today)
    /\ parse_errors' = parse_errors_of(raw_combined)
    /\ pc' = "canonical"
    /\ UNCHANGED <<auxVars, pipeVars, hierVars, readVars, loadVars,
                   fact_out, fact, error, page>>

NextCanonical ==
    \/ LoadLocalBudgetCsvs
    \/ ParseLocalDataToCanonical

SpecCanonical == InitCanonical /\ [][NextCanonical]_vars

-----------------------------------------------------------------------------
(* Claims about the load and the fact table *)

\* The frame a file brings to the concatenation
OwnFrame(f) == FramesOf(<<f>>)[1]

\* The file of the last load that a row of the combined table came from
SourceOf(row) ==
    CHOOSE f \in {read_files[i] : i \in DOMAIN read_files} :
        f.name = ValueAt(raw_combined.cols, row, "__source_file")

\* A row of the combined table under the columns of its own file only
OwnRow(row) ==
    [k \in DOMAIN OwnFrame(SourceOf(row)).cols |->
        ValueAt(raw_combined.cols, row, OwnFrame(SourceOf(row)).cols[k])]

\* The cents of the first candidate column the row's own file provides
OwnCents(row, candidates) ==
    LET own == NormalizedCols(OwnFrame(SourceOf(row)).cols)
    IN  cents_or_zero(MoneyCell(
            col_as_1d_series(own, OwnRow(row),
                             first_existing_col(own, candidates), NaN)))

\* C15: in build_fact_table the budget and the spend of every row are read
\* from the first candidate column, in priority order, that the row's own
\* source file provides, whatever columns the other files of the load add.
C15_OwnFileAliases ==
    \A i \in DOMAIN fact_out :
        /\ fact_out[i].budget_cents =
               OwnCents(raw_combined.rows[fact_out[i].index], BudgetCandidates)
        /\ fact_out[i].spend_cents =
               OwnCents(raw_combined.rows[fact_out[i].index], SpendCandidates)

\* What the code does: the candidates are looked up once, among the columns
\* of the whole combined table
CombinedTableAliases ==
    \A i \in DOMAIN fact_out :
        LET all == NormalizedCols(raw_combined.cols)
            row == raw_combined.rows[fact_out[i].index]
        IN  /\ fact_out[i].budget_cents = cents_or_zero(MoneyCell(
                   col_as_1d_series(all, row, infer_budget_column(all), NaN)))
            /\ fact_out[i].spend_cents = cents_or_zero(MoneyCell(
                   col_as_1d_series(all, row, infer_spend_column(all), NaN)))

\* A row whose own file has a budget column of lower priority than another
\* file's, and whose budget was read as zero
C15_LowerPriorityAliasLost ==
    \E i \in DOMAIN fact_out :
        /\ fact_out[i].budget_cents = 0
        /\ OwnCents(raw_combined.rows[fact_out[i].index], BudgetCandidates) > 0

\* The rows of the combined table that came from file f, each under the
\* columns of f only
RowsFrom(f) ==
    LET mine == SelectSeq(raw_combined.rows, LAMBDA row :
                    ValueAt(raw_combined.cols, row, "__source_file") = f.name)
    IN  [i \in DOMAIN mine |-> OwnRow(mine[i])]

\* The row repeats the header of the columns: the test of the filter
RepeatsHeader(cols, row) ==
    HeaderMatches(cols, row) >= Max2(2, Len(cols) \div 2)

Loaded == served # "none"

\* C16: the repeated-header filter acts on every file's rows against that
\* file's own columns as well as on the concatenated table, so no row of the
\* combined table repeats the header of the file it came from, whatever
\* columns the other files contribute.
C16_NoOwnHeaderRowSurvives ==
    Loaded =>
        \A i \in DOMAIN read_files :
            \A j \in DOMAIN RowsFrom(read_files[i]) :
                ~RepeatsHeader(OwnFrame(read_files[i]).cols,
                               RowsFrom(read_files[i])[j])

\* What the code does: the filter runs once, on the concatenated table, and
\* counts the matches against half of all its columns
FilterRunsOnCombinedOnly ==
    Loaded =>
        \A j \in DOMAIN raw_combined.rows :
            ~RepeatsHeader(raw_combined.cols, raw_combined.rows[j])

\* A row equal to its own file's header in every column is in the combined
\* table
C16_HeaderRowSurvived ==
    /\ Loaded
    /\ \E i \in DOMAIN read_files :
          \E j \in DOMAIN RowsFrom(read_files[i]) :
              HeaderMatches(OwnFrame(read_files[i]).cols,
                            RowsFrom(read_files[i])[j])
                  = Len(OwnFrame(read_files[i]).cols) - 1

\* The file fails to parse
FailsToParse(f) == read_csv_with_header_detection(f.lines).raised

\* C17: a file that fails to parse contributes exactly one marker row with its
\* name and an error description, every other file contributes exactly the
\* rows it contributes when it is loaded alone, and the load does not raise.
C17_MalformedFileIsolated ==
    Loaded =>
        /\ ~raw_combined.raised
        /\ \A i \in DOMAIN read_files :
              IF FailsToParse(read_files[i])
              THEN RowsFrom(read_files[i]) =
                       <<(<<read_files[i].name, "failed_to_parse">>)>>
              ELSE RowsFrom(read_files[i]) =
                       load_local_budget_csvs(<<read_files[i]>>).rows

\* The part that holds: one marker row for each failing file, no exception
MarkerRowPerFailingFile ==
    Loaded =>
        /\ ~raw_combined.raised
        /\ \A i \in DOMAIN read_files :
              FailsToParse(read_files[i]) =>
                  RowsFrom(read_files[i]) =
                      <<(<<read_files[i].name, "failed_to_parse">>)>>

\* The rest of it holds as long as no file of the load repeats its header
IsolatedWithoutRepeatedHeaders ==
    (\A i \in DOMAIN read_files :
        \A j \in DOMAIN OwnFrame(read_files[i]).rows :
            ~RepeatsHeader(OwnFrame(read_files[i]).cols,
                           OwnFrame(read_files[i]).rows[j]))
        => C17_MalformedFileIsolated

\* A failing file loaded together with a file that parses
C17_FailingFileAmongOthers ==
    /\ Loaded
    /\ \E i, j \in DOMAIN read_files :
          /\ FailsToParse(read_files[i])
          /\ ~FailsToParse(read_files[j])
          /\ RowsFrom(read_files[j]) # <<>>

-----------------------------------------------------------------------------
(* Claims about the cache and the guards of the script *)

\* C19: the first load after a re-sync request reads the files again; a table
\* cached before the request is never what that load returns.
C19_NoCachedLoadAfterReSync == answered => served = "fresh"

\* What the code does: a load returns the cached table whenever there is an
\* entry, and an entry goes only when its time-to-live has passed
CachedWhileEntryLives ==
    [][(pc = "start" /\ pc' = "loaded" /\ cache.valid) =>
           (served' = "cached" /\ raw_combined' = cache.value)]_vars

\* A re-sync was answered with a cached table that differs from what the
\* files on disk now give
C19_StaleTableAfterReSync ==
    /\ answered
    /\ served = "cached"
    /\ raw_combined # load_local_budget_csvs(disk)

\* C20: with no file matching the pattern, or with an empty fact table, the
\* run reports an error and stops; no page is rendered from an empty raw table
\* or an empty fact table.
C20_NoPageFromEmptyTables ==
    /\ page # "" => (~IsEmpty(raw_combined) /\ fact # <<>>)
    /\ pc = "stopped" => (error # "" /\ page = "")
    /\ (pc \notin {"start", "loaded"} /\ IsEmpty(raw_combined)) =>
           pc = "stopped"
    /\ (pc \in {"menu", "rendered"}) => fact # <<>>
    /\ (pc \in {"loaded", "stopped"} /\ served = "fresh" /\ read_files = <<>>) =>
           IsEmpty(raw_combined)

\* A run that stopped with an error on an empty fact table built from rows
C20_Witness ==
    /\ pc = "stopped"
    /\ error # ""
    /\ ~IsEmpty(raw_combined)
    /\ fact = <<>>

\* A run that stopped with an error because no file matched the pattern
C20_NoFileReached ==
    /\ pc = "stopped"
    /\ error # ""
    /\ disk = <<>>
    /\ served = "fresh"

\* A page rendered from a fact table with rows
C20_PageReached == page \in Pages /\ fact # <<>>

-----------------------------------------------------------------------------
(* Claims about parse_local_data_to_canonical *)

OwnNormalizedCols(f) == NormalizedCols(OwnFrame(f).cols)

\* The file, taken by itself, matches none of the formats or raises while it
\* is normalized
SetAside(f) ==
    \/ FormatOf(OwnNormalizedCols(f)) = "unknown"
    \/ NormalizationRaises(OwnNormalizedCols(f))

\* The rows of the canonical table that carry the name of one of the files
CanonRowsOf(t, files) ==
    SelectSeq(t.rows, LAMBDA row :
        \E i \in DOMAIN files :
            ValueAt(t.cols, row, "__source_file") = files[i].name)

\* No row of the canonical table comes from a file that is set aside
NoCanonicalRowOfSetAside ==
    pc = "canonical" =>
        CanonRowsOf(canon, SelectSeq(read_files, SetAside)) = <<>>

\* Every file that is set aside is in the diagnostic list, with a marker
SetAsideIsRecorded ==
    pc = "canonical" =>
        \A i \in DOMAIN read_files :
            SetAside(read_files[i]) =>
                \E k \in DOMAIN parse_errors :
                    /\ parse_errors[k].source_file = read_files[i].name
                    /\ parse_errors[k].parse_error # ""

\* The other files have the canonical rows they have without the files that
\* are set aside
OthersUnchanged ==
    pc = "canonical" =>
        LET others == SelectSeq(read_files, LAMBDA f : ~SetAside(f))
        IN  CanonRowsOf(canon, others) =
                CanonRowsOf(parse_local_data_to_canonical(
                                load_local_budget_csvs(others), today), others)

\* C18: a source file that matches none of the formats A, B, C, or whose
\* normalization raises, contributes no row to the canonical table, is
\* recorded with its name and a parse-error marker in a diagnostic table of
\* its own, and leaves the canonical rows of the other files as they are.
C18_UnrecognizedFileSetAside ==
    /\ NoCanonicalRowOfSetAside
    /\ SetAsideIsRecorded
    /\ OthersUnchanged

\* What the code does with a load whose combined columns select no format:
\* no canonical row and no record of any of its files
UnknownLoadLeavesNoTrace ==
    (/\ pc = "canonical"
     /\ ~IsEmpty(raw_combined)
     /\ FormatOf(NormalizedCols(raw_combined.cols)) = "unknown")
        => (canon.rows = <<>> /\ parse_errors = <<>>)

\* What the code does with the entries of parse_errors: each is a row of the
\* table it returns
ParseErrorsAreCanonicalRows ==
    pc = "canonical" =>
        \A k \in DOMAIN parse_errors :
            \E i \in DOMAIN canon.rows :
                /\ ValueAt(canon.cols, canon.rows[i], "__source_file")
                       = parse_errors[k].source_file
                /\ ValueAt(canon.cols, canon.rows[i], "__parse_error")
                       = parse_errors[k].parse_error

\* A file of an unknown schema was normalized and is recorded nowhere
C18_UnknownFileNotRecorded ==
    /\ pc = "canonical"
    /\ \E i \in DOMAIN read_files :
          /\ read_files[i].lines = UnknownSchema
          /\ \A k \in DOMAIN parse_errors :
                parse_errors[k].source_file # read_files[i].name

\* A file whose normalization raised has a row in the returned table
C18_RaisingFileInCanonicalTable ==
    /\ pc = "canonical"
    /\ parse_errors # <<>>
    /\ \E i \in DOMAIN canon.rows :
          ValueAt(canon.cols, canon.rows[i], "__parse_error") = "AttributeError"

-----------------------------------------------------------------------------
(* Claims about dates that do not parse, metrics and the stages' inputs    *)

\* The day a date cell stands for once today is put in for a cell that is
\* absent or does not parse
SubstitutedDay(cell) ==
    IF parse_date_col(cell).nat THEN today ELSE parse_date_col(cell).day

\* C23: in every row of compute_financials a start_date or end_date cell that
\* is absent or does not parse is replaced by today before any day math:
\* start_date and end_date of the output are calendar dates, and total_days
\* and elapsed_days are both computed from the substituted dates, so that a
\* row with neither date parseable has total_days = 1 and elapsed_days = 1.
C23_MissingDatesBecomeToday ==
    \A i \in DOMAIN leaf :
        LET s == SubstitutedDay(raw[i].start_date)
            e == SubstitutedDay(raw[i].end_date)
        IN  /\ ~leaf[i].start_date.nat /\ ~leaf[i].end_date.nat
            /\ leaf[i].total_days = Floor0(e - s + 1)
            /\ leaf[i].elapsed_days = Floor0(Earlier(today, e) - s + 1)

\* What compute_financials does with such cells: the date stays NaT in the
\* output, total_days is 0 as soon as one date is NaT, and only elapsed_days
\* is computed from the dates with today put in
NaTKeptAndTotalDaysZero ==
    \A i \in DOMAIN leaf :
        LET start == parse_date_col(raw[i].start_date)
            end == parse_date_col(raw[i].end_date)
            s == SubstitutedDay(raw[i].start_date)
            e == SubstitutedDay(raw[i].end_date)
        IN  /\ leaf[i].start_date = start /\ leaf[i].end_date = end
            /\ (start.nat \/ end.nat) => leaf[i].total_days = 0
            /\ leaf[i].elapsed_days = Floor0(Earlier(today, e) - s + 1)

\* A row with neither date parseable: total_days 0 beside elapsed_days 1
C23_BothDatesUnparseable ==
    /\ pc = "leaf"
    /\ \E i \in DOMAIN leaf :
          /\ raw[i].start_date = TextDate /\ raw[i].end_date = TextDate
          /\ leaf[i].start_date.nat /\ leaf[i].end_date.nat
          /\ leaf[i].total_days = 0 /\ leaf[i].elapsed_days = 1

\* Row i was given paused-day counts with 0 <= paused_days_to_date <=
\* paused_days_total and has a budget that is not negative
PausesInOrder(i) ==
    /\ raw[i].paused_days_total.num /\ raw[i].paused_days_to_date.num
    /\ 0 <= raw[i].paused_days_to_date.n
    /\ raw[i].paused_days_to_date.n <= raw[i].paused_days_total.n
    /\ leaf[i].total_budget_cents >= 0

\* C27: in every row of compute_financials with total_budget_cents >= 0 and
\* 0 <= paused_days_to_date <= paused_days_total, whatever today is,
\* 0 <= expected_spend_to_date_cents <= total_budget_cents, and
\* elapsed_active_days <= active_days_total whenever active_days_total > 0.
C27_ExpectedSpendWithinBudget ==
    \A i \in DOMAIN leaf :
        PausesInOrder(i) =>
            /\ 0 <= leaf[i].expected_spend_to_date_cents
            /\ leaf[i].expected_spend_to_date_cents <= leaf[i].total_budget_cents
            /\ leaf[i].active_days_total > 0 =>
                  leaf[i].elapsed_active_days <= leaf[i].active_days_total

\* The bounds hold for the rows whose pauses still to come fit into the days
\* still to come: paused_days_total - paused_days_to_date <=
\* total_days - elapsed_days
ExpectedSpendWithinBudgetWhenPausesFit ==
    \A i \in DOMAIN leaf :
        (/\ PausesInOrder(i)
         /\ leaf[i].paused_days_total - leaf[i].paused_days_to_date
                <= leaf[i].total_days - leaf[i].elapsed_days) =>
            /\ 0 <= leaf[i].expected_spend_to_date_cents
            /\ leaf[i].expected_spend_to_date_cents <= leaf[i].total_budget_cents

\* A window that has run out with two paused days planned and none taken:
\* more is expected to be spent than the budget holds
C27_ExpectedSpendAboveBudget ==
    /\ pc = "leaf"
    /\ \E i \in DOMAIN leaf :
          /\ PausesInOrder(i)
          /\ leaf[i].paused_days_to_date = 0 /\ leaf[i].paused_days_total = 2
          /\ leaf[i].active_days_total > 0
          /\ leaf[i].elapsed_active_days > leaf[i].active_days_total
          /\ leaf[i].expected_spend_to_date_cents > leaf[i].total_budget_cents

PerfFields == {"CPM", "CTR", "CPL"}

\* The values the leaf rows of aggregate row a have in a field, absent cells
\* left out
LeafValues(a, fld) ==
    {leaf[i][fld] : i \in {k \in Children(a) : ~leaf[k][fld].na}}

\* C25: in every row of aggregate_to_campaign each of CPM, CTR and CPL is the
\* common value of the row's leaf rows when all their non-absent values are
\* equal, and is absent when they differ or when every leaf value is absent;
\* it is never a value that no leaf row has.
C25_ConsistentOrNone ==
    pc \in {"agg", "camp"} =>
        \A j \in DOMAIN agg : \A fld \in PerfFields :
            LET vals == LeafValues(agg[j], fld)
                agree == vals # {} /\ \A v \in vals, w \in vals : v = w
            IN  /\ agree => (~agg[j][fld].na /\ agg[j][fld] \in vals)
                /\ ~agree => agg[j][fld].na
                /\ ~agg[j][fld].na => agg[j][fld] \in vals

\* One campaign of two phases: their CPM cells differ and the aggregate has
\* none, one CTR cell is absent and the aggregate has the other, both CPL cells
\* are absent and so is the aggregate's
C25_Witness ==
    /\ pc = "agg"
    /\ Len(leaf) = 2 /\ Len(agg) = 1
    /\ ~leaf[1].CPM.na /\ ~leaf[2].CPM.na /\ leaf[1].CPM # leaf[2].CPM
    /\ agg[1].CPM.na
    /\ leaf[1].CTR.na /\ ~leaf[2].CTR.na /\ agg[1].CTR = leaf[2].CTR
    /\ leaf[1].CPL.na /\ leaf[2].CPL.na /\ agg[1].CPL.na

\* The outputs the two metric stages have in common
MetricFields ==
    {"remaining_budget_cents", "total_days", "active_days_total",
     "elapsed_days", "elapsed_active_days", "remaining_active_days",
     "expected_spend_to_date_cents", "required_daily", "min_daily_violation",
     "pacing_ratio", "forecast_leads", "forecast_impressions",
     "forecast_clicks"}

SameMetrics(a, b) == \A fld \in MetricFields : a[fld] = b[fld]

\* C26: compute_campaign_metrics_from_cents applies the formulas of
\* compute_financials: given the total_budget_cents, spent_to_date_cents,
\* dates, paused days, Channel, CPM, CTR and CPL of a leaf row and the same
\* today it yields the leaf row's remaining_budget_cents, day counts,
\* expected_spend_to_date_cents, required_daily, min_daily_violation,
\* pacing_ratio and three forecasts; and in the campaign table an aggregate
\* built from a single leaf row has the metrics of that leaf row.
C26_CampaignMetricsAsLeafMetrics ==
    /\ \A i \in DOMAIN leaf : SameMetrics(camp_row(leaf[i], today), leaf[i])
    /\ pc = "camp" =>
          \A j \in DOMAIN camp : \A i \in Children(camp[j]) :
              Children(camp[j]) = {i} => SameMetrics(camp[j], leaf[i])

\* A single LinkedIn row half way through its window, with CPM, CTR and CPL,
\* as a campaign row: every metric has a value
C26_Witness ==
    /\ pc = "camp"
    /\ Len(leaf) = 1 /\ Len(camp) = 1
    /\ camp[1].total_budget_cents > 0
    /\ camp[1].elapsed_days > 0 /\ camp[1].remaining_active_days > 0
    /\ camp[1].expected_spend_to_date_cents > 0
    /\ ~camp[1].required_daily.none /\ camp[1].min_daily_violation
    /\ ~camp[1].pacing_ratio.none
    /\ ~camp[1].forecast_leads.none /\ ~camp[1].forecast_impressions.none
    /\ ~camp[1].forecast_clicks.none
    /\ SameMetrics(camp[1], leaf[1])

\* A single row with a date that did not parse, as a campaign row
C26_WitnessNaT ==
    /\ pc = "camp"
    /\ Len(leaf) = 1 /\ Len(camp) = 1
    /\ leaf[1].start_date.nat /\ ~leaf[1].end_date.nat
    /\ camp[1].total_days = 0 /\ camp[1].elapsed_days > 0
    /\ SameMetrics(camp[1], leaf[1])

-----------------------------------------------------------------------------
(* The stages as calls on table objects.  A table is an object of the heap, *)
(* a stage is called with a reference to one and returns a reference.       *)

\* df.copy(): a new object with the contents of the one referred to
copy_alias(h, ref) == [heap |-> h, ref |-> ref]

copy(h, ref) == [heap |-> Append(h, h[ref]), ref |-> Len(h) + 1]

\* A table the stage builds (DataFrame(...), concat, groupby, df.loc[...])
NewTable(h, value) == [heap |-> Append(h, value), ref |-> Len(h) + 1]

Stages ==
    {"compute_financials", "aggregate_to_campaign",
     "compute_campaign_metrics_from_cents", "drop_duplicate_header_rows",
     "parse_local_data_to_canonical", "build_fact_table"}

\* Canonical tables of up to MaxRows rows, the table of no row among them
StageRows ==
    {RawRow(c, "LinkedIn", s, DateCell(2), Cell("100"), Cell("0.5"),
            Num(1), Num(0)) :
        c \in {"c1", "c2"}, s \in {DateCell(1), TextDate}}

StageTables == UNION {[1..n -> StageRows] : n \in 0..MaxRows}

\* The columns of the frames given to drop_duplicate_header_rows, and for each
\* a cell that repeats the name in another case or with blanks around it
HeaderCols == <<"Group", "name", "Budget", "start", "end">>

HeaderCells == <<"group", " NAME ", "budget", "Start", "end">>

\* The row of n cells whose columns in S repeat their name
PatternRow(n, S) ==
    [k \in 1..n |-> IF k \in S THEN HeaderCells[k] ELSE "x"]

\* Frames of one row: every number of columns, every set of repeating cells
OneRowFrames ==
    {[raised |-> FALSE, cols |-> SubSeq(HeaderCols, 1, n),
      rows |-> <<PatternRow(n, S)>>] :
        n \in 1..Len(HeaderCols), S \in SUBSET (1..Len(HeaderCols))}

\* Frames of all the columns with up to MaxRows rows, row by row the first m
\* cells repeating their name
ManyRowFrames ==
    UNION {{[raised |-> FALSE, cols |-> HeaderCols,
             rows |-> [i \in 1..n |-> PatternRow(Len(HeaderCols), 1..m[i])]] :
               m \in [1..n -> 0..Len(HeaderCols)]} : n \in 0..MaxRows}

DropFrames == OneRowFrames \cup ManyRowFrames

InitStages ==
    /\ series = <<>>
    /\ cents_out = <<>>
    /\ today \in AppDays
    /\ raw = <<>>
    /\ leaf = <<>>
    /\ agg = <<>>
    /\ camp = <<>>
    /\ IngestIdle
    /\ first = <<>>
    /\ pc = "call"
    /\ arg = 1
    /\ ret = 0
    /\ \/ /\ stage = "compute_financials"
          /\ \E tb \in StageTables : heap = <<tb>>
       \/ /\ stage = "aggregate_to_campaign"
          /\ \E tb \in StageTables : heap = <<compute_financials(tb, today)>>
       \/ /\ stage = "compute_campaign_metrics_from_cents"
          /\ \E tb \in StageTables :
                heap = <<aggregate_to_campaign(compute_financials(tb, today),
                                               "skip")>>
       \/ /\ stage = "drop_duplicate_header_rows"
          /\ \E t \in DropFrames : heap = <<t>>
       \/ /\ stage \in {"parse_local_data_to_canonical", "build_fact_table"}
          /\ \E d \in DisksOf(DOMAIN ScriptFiles) :
                heap = <<load_local_budget_csvs(d)>>

Returns(h, ref) ==
    /\ heap' = h
    /\ ret' = ref
    /\ pc' = "returned"

Raises ==
    /\ heap' = heap
    /\ ret' = ret
    /\ pc' = "raised"

\* out = df.copy(), then every column is assigned on out
CallComputeFinancials ==
    /\ pc = "call" /\ stage = "compute_financials"
    /\ LET out == copy(heap, arg)
       IN  IF fin_raises(heap[arg]) THEN Raises
           ELSE Returns([out.heap EXCEPT ![out.ref] =
                            compute_financials(out.heap[out.ref], today)],
                        out.ref)
    /\ UNCHANGED <<pipeVars, ingestVars, arg, stage, first>>

\* The groupby results are merged into a table of their own
CallAggregateToCampaign ==
    /\ pc = "call" /\ stage = "aggregate_to_campaign"
    /\ \E mode \in NaTModes :
          IF HasNaT(heap[arg]) /\ mode = "raise" THEN Raises
          ELSE LET out == NewTable(heap, aggregate_to_campaign(heap[arg], mode))
               IN  Returns(out.heap, out.ref)
    /\ UNCHANGED <<pipeVars, ingestVars, arg, stage, first>>

\* out = df_campaign.copy(), then every column is assigned on out
CallComputeCampaignMetrics ==
    /\ pc = "call" /\ stage = "compute_campaign_metrics_from_cents"
    /\ LET out == copy(heap, arg)
       IN  Returns([out.heap EXCEPT ![out.ref] =
                       compute_campaign_metrics_from_cents(out.heap[out.ref],
                                                           today)],
                   out.ref)
    /\ UNCHANGED <<pipeVars, ingestVars, arg, stage, first>>

\* if df.empty: return df; otherwise df.loc[~mask].reset_index(drop=True)
CallDropDuplicateHeaderRows ==
    /\ pc = "call" /\ stage = "drop_duplicate_header_rows"
    /\ IF IsEmpty(heap[arg]) THEN Returns(heap, arg)
       ELSE LET out == NewTable(heap, drop_duplicate_header_rows(heap[arg]))
            IN  Returns(out.heap, out.ref)
    /\ UNCHANGED <<pipeVars, ingestVars, arg, stage, first>>

\* if raw.empty: return raw; otherwise the frames built from copies of the
\* groups are concatenated and out[CANON_COLS] is returned
CallParseLocalDataToCanonical ==
    /\ pc = "call" /\ stage = "parse_local_data_to_canonical"
    /\ IF IsEmpty(heap[arg]) THEN Returns(heap, arg)
       ELSE LET out == NewTable(heap,
                           parse_local_data_to_canonical(heap[arg], today))
            IN  Returns(out.heap, out.ref)
    /\ UNCHANGED <<pipeVars, ingestVars, arg, stage, first>>

\* if raw_combined.empty: return pd.DataFrame(); otherwise df is a copy,
\* df.rename(...) a table of its own, and the groupby result is returned
CallBuildFactTable ==
    /\ pc = "call" /\ stage = "build_fact_table"
    /\ IF IsEmpty(heap[arg])
       THEN LET out == NewTable(heap, <<>>) IN Returns(out.heap, out.ref)
       ELSE LET df0 == copy(heap, arg)
                renamed == NewTable(df0.heap,
                               [df0.heap[df0.ref] EXCEPT
                                   !.cols = NormalizedCols(@)])
                out == NewTable(renamed.heap,
                                build_fact_table(heap[arg], today))
            IN  Returns(out.heap, out.ref)
    /\ UNCHANGED <<pipeVars, ingestVars, arg, stage, first>>

NextStages ==
    \/ CallComputeFinancials
    \/ CallAggregateToCampaign
    \/ CallComputeCampaignMetrics
    \/ CallDropDuplicateHeaderRows
    \/ CallParseLocalDataToCanonical
    \/ CallBuildFactTable

SpecStages == InitStages /\ [][NextStages]_vars

StagesTypeOK ==
    /\ stage \in Stages
    /\ arg \in DOMAIN heap
    /\ ret \in {0} \cup DOMAIN heap

-----------------------------------------------------------------------------
(* Claims about the stages as calls *)

\* C22: no stage mutates its input: when compute_financials,
\* aggregate_to_campaign, compute_campaign_metrics_from_cents,
\* drop_duplicate_header_rows, parse_local_data_to_canonical or
\* build_fact_table returns, the table passed to it has the rows, columns and
\* cell values it had when the stage was called, and the table returned is a
\* new one: an object that did not exist before the call.
C22_InputUnchangedResultNew ==
    [][(pc = "call" /\ pc' = "returned") =>
          /\ heap'[arg] = heap[arg]
          /\ ret' \in DOMAIN heap' /\ ret' \notin DOMAIN heap]_vars

\* No call changes a table that existed before it
ExistingTablesUnchanged ==
    [][\A ref \in DOMAIN heap : ref \in DOMAIN heap' /\ heap'[ref] = heap[ref]]_vars

\* The table returned is new unless drop_duplicate_header_rows or
\* parse_local_data_to_canonical was given an empty table, which it hands back
ResultNewUnlessEmptyInput ==
    [][(pc = "call" /\ pc' = "returned") =>
          IF /\ stage \in {"drop_duplicate_header_rows",
                           "parse_local_data_to_canonical"}
             /\ IsEmpty(heap[arg])
          THEN ret' = arg
          ELSE ret' \in DOMAIN heap' /\ ret' \notin DOMAIN heap]_vars

\* drop_duplicate_header_rows has returned the empty table it was given
C22_EmptyTableHandedBack ==
    /\ pc = "returned" /\ stage = "drop_duplicate_header_rows"
    /\ IsEmpty(heap[arg]) /\ ret = arg

\* parse_local_data_to_canonical has returned the empty table it was given
C22_EmptyLoadHandedBack ==
    /\ pc = "returned" /\ stage = "parse_local_data_to_canonical"
    /\ IsEmpty(heap[arg]) /\ ret = arg

\* The least whole number that is at least n / 2
CeilHalf(n) == (n + 1) \div 2

\* The cell of column k repeats the column's name, whatever the case and the
\* blanks around it
RepeatsName(cols, row, k) ==
    StrLower(StrStrip(row[k])) = StrLower(StrStrip(cols[k]))

NamesRepeated(cols, row) ==
    Cardinality({k \in DOMAIN cols : RepeatsName(cols, row, k)})

\* C24: drop_duplicate_header_rows drops a row if and only if at least
\* max(2, ceil(columns / 2)) of its cells equal, case-insensitively and after
\* trimming, the name of their own column, and keeps every other row in its
\* original order; with 5 columns a row needs 3 such cells to be dropped and a
\* row with 2 of them is kept.
C24_DropsAtCeilingOfHalf ==
    (pc = "returned" /\ stage = "drop_duplicate_header_rows") =>
        /\ heap[ret].cols = heap[arg].cols
        /\ heap[ret].rows =
               SelectSeq(heap[arg].rows, LAMBDA row :
                   NamesRepeated(heap[arg].cols, row)
                       < Max2(2, CeilHalf(Len(heap[arg].cols))))

\* What the code does: the bound is max(2, floor(columns / 2))
DropsAtFloorOfHalf ==
    (pc = "returned" /\ stage = "drop_duplicate_header_rows") =>
        /\ heap[ret].cols = heap[arg].cols
        /\ heap[ret].rows =
               SelectSeq(heap[arg].rows, LAMBDA row :
                   NamesRepeated(heap[arg].cols, row)
                       < Max2(2, Len(heap[arg].cols) \div 2))

\* A frame of 5 columns whose only row repeats 2 names: the row is dropped
C24_TwoOfFiveDropped ==
    /\ pc = "returned" /\ stage = "drop_duplicate_header_rows"
    /\ Len(heap[arg].cols) = 5 /\ Len(heap[arg].rows) = 1
    /\ NamesRepeated(heap[arg].cols, heap[arg].rows[1]) = 2
    /\ heap[ret].rows = <<>>

-----------------------------------------------------------------------------
(* Two runs of the pipeline over the same files: load, normalization,      *)
(* compute_financials, aggregate_to_campaign and                           *)
(* compute_campaign_metrics_from_cents                                     *)

\* The orders in which base_dir.glob(...) can yield the files
Listings(files) ==
    {[i \in DOMAIN files |-> files[q[i]]] : q \in Permutations(DOMAIN files)}

\* out[c].astype(str).fillna("").replace("nan", "") at one hierarchy cell
HierarchyName(v) == IF v = NaN THEN "" ELSE v

\* A cell of a paused-days column as safe_int reads it
PausedCellOf(v) ==
    IF v # NaN /\ v # "" /\ \A i \in 1..Len(v) : SubSeq(v, i, i) \in Digits
    THEN Num(DigitsValue(Text(v)))
    ELSE NotNum

\* A row of the canonical table as compute_financials reads it, the baseline
\* budget being the scenario's budget column
FinancialRow(row) ==
    [Program |-> HierarchyName(ValueAt(CANON_COLS, row, "Program")),
     Industry |-> HierarchyName(ValueAt(CANON_COLS, row, "Industry")),
     Channel |-> HierarchyName(ValueAt(CANON_COLS, row, "Channel")),
     Campaign |-> HierarchyName(ValueAt(CANON_COLS, row, "Campaign")),
     Phase |-> HierarchyName(ValueAt(CANON_COLS, row, "Phase")),
     start_date |-> DateCellOf(ValueAt(CANON_COLS, row, "start_date")),
     end_date |-> DateCellOf(ValueAt(CANON_COLS, row, "end_date")),
     budget |-> MoneyCell(ValueAt(CANON_COLS, row, "total_budget_baseline")),
     spent_to_date |-> MoneyCell(ValueAt(CANON_COLS, row, "spent_to_date")),
     paused_days_total |->
         PausedCellOf(ValueAt(CANON_COLS, row, "paused_days_total")),
     paused_days_to_date |->
         PausedCellOf(ValueAt(CANON_COLS, row, "paused_days_to_date")),
     CPM |-> MoneyCell(ValueAt(CANON_COLS, row, "CPM")),
     CTR |-> MoneyCell(ValueAt(CANON_COLS, row, "CTR")),
     CPL |-> MoneyCell(ValueAt(CANON_COLS, row, "CPL"))]

FinancialRows(t) == [i \in DOMAIN t.rows |-> FinancialRow(t.rows[i])]

\* The files of the runs: exports of two formats whose columns normalize to
\* the same names, a group export, an empty file and an unknown schema
RunFiles ==
    {i \in DOMAIN Catalogue :
        Catalogue[i].lines \in {CampaignExport, PlanningFile, GroupExport,
                                <<>>, UnknownSchema}}

InitRuns ==
    /\ AuxIdle
    /\ series = <<>>
    /\ cents_out = <<>>
    /\ today \in AppDays
    /\ raw = <<>>
    /\ leaf = <<>>
    /\ agg = <<>>
    /\ camp = <<>>
    /\ HierIdle
    /\ ReadIdle
    /\ \E d \in DisksOf(RunFiles) : disk \in Listings(d)
    /\ cache = NoCache
    /\ raw_combined = NoFrame
    /\ read_files = <<>>
    /\ served = "none"
    /\ resync = FALSE
    /\ answered = FALSE
    /\ edits = 0
    /\ AppIdle
    /\ pc = "start"

\* compute_financials(canonical, "total_budget_baseline", today); a table
\* without the budget column (the empty table of a load of no file) raises
ComputeFinancialsOfCanonical ==
    /\ pc = "canonical"
    /\ raw' = IF IsEmpty(canon) THEN <<>> ELSE FinancialRows(canon)
    /\ IF IsEmpty(canon) \/ fin_raises(raw')
       THEN pc' = "raised" /\ leaf' = leaf
       ELSE pc' = "leaf" /\ leaf' = compute_financials(raw', today)
    /\ UNCHANGED <<series, cents_out, today, agg, camp>>
    /\ UNCHANGED <<ingestVars, auxVars>>

PipelineEnded == pc \in {"camp", "raised"}

\* The pipeline runs once more on the same files and the same day: glob may
\* list the files in another order, and the cached load may have expired
RunAgain ==
    /\ PipelineEnded
    /\ first = <<>>
    /\ first' = <<[disk |-> disk, canon |-> canon, leaf |-> leaf, agg |-> agg,
                   camp |-> camp, pc |-> pc]>>
    /\ disk' \in Listings(disk)
    /\ cache' \in {cache, NoCache}
    /\ raw_combined' = NoFrame
    /\ served' = "none"
    /\ canon' = NoFrame
    /\ parse_errors' = <<>>
    /\ raw' = <<>> /\ leaf' = <<>> /\ agg' = <<>> /\ camp' = <<>>
    /\ pc' = "start"
    /\ UNCHANGED <<series, cents_out, today, hierVars, readVars, read_files,
                   resync, answered, edits, fact_out, fact, error, page,
                   callVars>>

NextRuns ==
    \/ LoadLocalBudgetCsvs
    \/ ParseLocalDataToCanonical
    \/ ComputeFinancialsOfCanonical
    \/ AggregateToCampaign
    \/ ComputeCampaignMetrics
    \/ RunAgain

SpecRuns == InitRuns /\ [][NextRuns]_vars

RunsTypeOK == Len(first) <= 1

-----------------------------------------------------------------------------
(* Claim about two runs *)

\* C21: the pipeline is deterministic: when load, normalization,
\* compute_financials, aggregate_to_campaign and
\* compute_campaign_metrics_from_cents have run twice over the same set of
\* files with the same today, the second run ends as the first did, with the
\* same canonical table and the same aggregate tables, in whatever order the
\* file system listed the files in either run.
C21_RunsAgree ==
    (first # <<>> /\ PipelineEnded) =>
        /\ pc = first[1].pc
        /\ canon = first[1].canon
        /\ leaf = first[1].leaf
        /\ agg = first[1].agg
        /\ camp = first[1].camp

\* Two files that both give canonical rows, listed in one order for the first
\* run and in the other for the second, which read them again
C21_Witness ==
    /\ first # <<>> /\ pc = "camp"
    /\ Len(disk) = 2 /\ disk # first[1].disk
    /\ served = "fresh"
    /\ \E i \in DOMAIN canon.rows : \E j \in DOMAIN canon.rows :
          ValueAt(canon.cols, canon.rows[i], "__source_file")
              # ValueAt(canon.cols, canon.rows[j], "__source_file")
    /\ camp # <<>> /\ camp = first[1].camp

=============================================================================
